---- MODULE Spec2Model ----
(***************************************************************************)
(* A model of the dataclass engine of this repository.  Two generations   *)
(* of the engine are kept side by side in the source tree:                *)
(*   src/dataclasses.py  (module "dataclasses": eq/order, InitVar, ...)   *)
(*   src/dataclass.py    (module "dataclass":   cmp, slots, ...)          *)
(* The variable `module` records which of the two the program imported;   *)
(* definitions prefixed dc_ model src/dataclass.py, the others model      *)
(* src/dataclasses.py.                                                    *)
(*                                                                         *)
(* State: the class objects created so far (their __dict__, __mro__,      *)
(* annotations and the closures of their generated methods), the Field    *)
(* objects (a heap, because Field objects are shared by reference between *)
(* field tables), the instances, the list objects instances may hold, and *)
(* the outcome of the last operation.                                      *)
(***************************************************************************)
EXTENDS Naturals, Sequences, FiniteSets, TLC

VARIABLES module, classes, fobjs, objs, heap, last

vars == <<module, classes, fobjs, objs, heap, last>>

----------------------------------------------------------------------------
(* Bounds of the model.                                                    *)

MaxClasses == 2     \* class statements executed
MaxOwn == 2         \* annotations in one class body
MaxObjs == 2        \* instances constructed
MaxInt == 1         \* integer values are 0..MaxInt
MaxLen == 1         \* appends to one list object
MaxSize == 4        \* class statements plus annotation lines of a program
MaxLattice == 4     \* classes of a program whose classes have several bases

----------------------------------------------------------------------------
(* Values.  Every Python value the model handles is a record [tag, v].    *)

FieldNames == {"a", "b", "c"}

Methods == {"__init__", "__repr__", "__eq__", "__ne__", "__lt__", "__le__",
            "__gt__", "__ge__", "__hash__", "__setattr__", "__delattr__"}

AttrNames == FieldNames \cup Methods \cup
             {"__post_init__", "__dataclass_post_init__", "__dataclass_fields__"}

Absent == [tag |-> "absent", v |-> 0]        \* no such attribute
PyNone == [tag |-> "None", v |-> 0]
Int(n) == [tag |-> "int", v |-> n]
Ref(k) == [tag |-> "list", v |-> k]          \* the list object heap[k]
Literal(t) == [tag |-> t, v |-> 0]           \* a container written in a class body
FieldRef(k) == [tag |-> "Field", v |-> k]    \* the Field object fobjs[k]
UserFn == [tag |-> "user", v |-> 0]          \* a function written by the user
Generated == [tag |-> "generated", v |-> 0]  \* a function made by _create_fn
FromObject == [tag |-> "object", v |-> 0]    \* the attribute of builtin object
Marker == [tag |-> "fields", v |-> 0]        \* the value of __dataclass_fields__

_MISSING == [tag |-> "MISSING", v |-> 0]
_HAS_DEFAULT_FACTORY == [tag |-> "HAS_DEFAULT_FACTORY", v |-> 0]
_frozen_setattr == [tag |-> "_frozen_setattr", v |-> 0]
_frozen_delattr == [tag |-> "_frozen_delattr", v |-> 0]

_FIELD == "_FIELD"
_FIELD_CLASSVAR == "_FIELD_CLASSVAR"
_FIELD_INITVAR == "_FIELD_INITVAR"
_POST_INIT_NAME == "__post_init__"
dc_POST_INIT_NAME == "__dataclass_post_init__"

\* isinstance(v, (list, dict, set)): "sublist" is an instance of a subclass.
\* A test of the exact type, which a subclass of list escapes.
IsExactlyContainer(v) == v.tag \in {"list", "dict", "set"}

IsMutableContainer(v) == v.tag \in {"list", "dict", "set", "sublist"}

NoErr == "none"

----------------------------------------------------------------------------
(* Field objects.                                                          *)

\* Field.__init__: name and type are filled in later.
Field(default, default_factory, init, repr, hash, compare) ==
  [name |-> "None", type |-> "None",
   default |-> default, default_factory |-> default_factory,
   init |-> init, repr |-> repr, hash |-> hash, compare |-> compare,
   _field_type |-> "None"]

\* field(): the value error for default together with default_factory is
\* the caller's; the inputs of the model never give both.
field(default, default_factory, init, repr, hash, compare) ==
  Field(default, default_factory, init, repr, hash, compare)

HasDefault(f) == f.default # _MISSING
HasFactory(f) == f.default_factory # "MISSING"

----------------------------------------------------------------------------
(* Class objects.                                                          *)
(*   mro    the class's __mro__ without object, the class itself first     *)
(*   ann    its own __annotations__, in order: <<[name, type], ...>>       *)
(*   dict   its own __dict__                                               *)
(*   fields the value of __dataclass_fields__: Field object ids, in order  *)
(*   init, repr, hash, eq, order: what the generated functions close over  *)
(*   pol, ns: the decorator's arguments and the namespace of the class     *)
(*          statement, kept to state the claims                            *)

NoInit == [fields |-> <<>>, frozen |-> FALSE, has_post_init |-> FALSE]

\* What builtin object provides when no class of the __mro__ has the name.
ObjectAttr(name) == IF name \in Methods THEN FromObject ELSE Absent

RECURSIVE LookupFrom(_, _, _, _)
LookupFrom(cs, mro, i, name) ==
  IF i > Len(mro) THEN ObjectAttr(name)
  ELSE IF cs[mro[i]].dict[name] # Absent THEN cs[mro[i]].dict[name]
  ELSE LookupFrom(cs, mro, i + 1, name)

\* getattr(cls, name, Absent) on the class object cs[c].
getattr(cs, c, name) == LookupFrom(cs, cs[c].mro, 1, name)

hasattr(cs, c, name) == getattr(cs, c, name) # Absent

setattr(cls, name, value) == [cls EXCEPT !.dict[name] = value]

delattr(cls, name) == [cls EXCEPT !.dict[name] = Absent]

(* The class statement.  A body line is                                    *)
(*   [name, type, form, value, f, ref]                                     *)
(* with form "bare" (name: type), "plain" (name: type = value), "field"   *)
(* (name: type = field(...), f the Field that call returns) or "reuse"    *)
(* (name: type = an existing Field object, fobjs[ref]).                   *)

RECURSIVE BodyDict(_, _, _, _)
BodyDict(body, i, nfo, d) ==
  IF i > Len(body) THEN d
  ELSE LET b == body[i]
           fresh == b.form = "field"
           val == CASE b.form = "bare" -> Absent
                    [] b.form = "plain" -> b.value
                    [] b.form = "field" -> FieldRef(nfo + 1)
                    [] OTHER -> FieldRef(b.ref)
       IN BodyDict(body, i + 1, IF fresh THEN nfo + 1 ELSE nfo,
                   [d EXCEPT ![b.name] = val])

RECURSIVE BodyFields(_, _, _)
BodyFields(body, i, fo) ==
  IF i > Len(body) THEN fo
  ELSE BodyFields(body, i + 1,
                  IF body[i].form = "field" THEN Append(fo, body[i].f) ELSE fo)

\* A __dict__ with none of the names the model follows.
EmptyDict ==
  [a |-> Absent, b |-> Absent, c |-> Absent,
   __init__ |-> Absent, __repr__ |-> Absent, __eq__ |-> Absent, __ne__ |-> Absent,
   __lt__ |-> Absent, __le__ |-> Absent, __gt__ |-> Absent, __ge__ |-> Absent,
   __hash__ |-> Absent, __setattr__ |-> Absent, __delattr__ |-> Absent,
   __post_init__ |-> Absent, __dataclass_post_init__ |-> Absent,
   __dataclass_fields__ |-> Absent]

\* The functions the user wrote in the class body.
RECURSIVE UserMethods(_, _)
UserMethods(d, methods) ==
  IF methods = {} THEN d
  ELSE LET m == CHOOSE m \in methods : TRUE
       IN UserMethods([d EXCEPT ![m] = UserFn], methods \ {m})

\* A class body that defines __eq__ and no __hash__ gets __hash__ = None
\* from the class statement.
ImplicitHash(d) ==
  IF d["__eq__"] # Absent /\ d["__hash__"] = Absent THEN [d EXCEPT !["__hash__"] = PyNone]
  ELSE d

\* The merge of the C3 linearization: the head of the first sequence that
\* is in the tail of none is taken, and removed from every sequence.  No
\* such head (an inconsistent hierarchy) ends the merge with 0.
DropHead(seqs, h) ==
  [k \in 1..Len(seqs) |-> IF Head(seqs[k]) = h THEN Tail(seqs[k]) ELSE seqs[k]]

GoodHeads(seqs) ==
  {i \in 1..Len(seqs) :
     \A j \in 1..Len(seqs) :
       \A k \in 2..Len(seqs[j]) : seqs[j][k] # Head(seqs[i])}

FirstGood(seqs) == CHOOSE i \in GoodHeads(seqs) : \A j \in GoodHeads(seqs) : i <= j

RECURSIVE C3Merge(_)
C3Merge(seqs) ==
  IF SelectSeq(seqs, LAMBDA q : q # <<>>) = <<>> THEN <<>>
  ELSE IF GoodHeads(SelectSeq(seqs, LAMBDA q : q # <<>>)) = {} THEN <<0>>
  ELSE <<Head(SelectSeq(seqs, LAMBDA q : q # <<>>)
                [FirstGood(SelectSeq(seqs, LAMBDA q : q # <<>>))])>>
         \o C3Merge(DropHead(SelectSeq(seqs, LAMBDA q : q # <<>>),
                             Head(SelectSeq(seqs, LAMBDA q : q # <<>>)
                                    [FirstGood(SelectSeq(seqs, LAMBDA q : q # <<>>))])))

\* The __mro__ of a class with these bases, without the class itself and
\* without object.
Linearize(cs, bases) ==
  C3Merge([i \in 1..Len(bases) |-> cs[bases[i]].mro] \o <<bases>>)

\* type(cls_name, bases, namespace): the new class object, not yet decorated.
NewClass(cs, fo, bases, body, methods, pol) ==
  LET id == Len(cs) + 1
      d == BodyDict(body, 1, Len(fo), ImplicitHash(UserMethods(EmptyDict, methods)))
  IN [mro |-> <<id>> \o Linearize(cs, bases),
      ann |-> [i \in 1..Len(body) |-> [name |-> body[i].name, type |-> body[i].type]],
      dict |-> d, fields |-> <<>>,
      init |-> NoInit, repr |-> <<>>, hash |-> <<>>, eq |-> <<>>, order |-> <<>>,
      pol |-> pol, ns |-> d]

----------------------------------------------------------------------------
(* src/dataclasses.py: finding the fields of one class.                    *)

\* _get_field: the Field object for one annotation.  An existing Field
\* object is used as it is, and its name, type and _field_type are set.
_get_field(cs, c, fo, a_name, a_type) ==
  LET default == getattr(cs, c, a_name)
      isField == default.tag = "Field"
      id == IF isField THEN default.v ELSE Len(fo) + 1
      f0 == IF isField THEN fo[default.v]
            ELSE field(IF default = Absent THEN _MISSING ELSE default,
                       "MISSING", TRUE, TRUE, "None", TRUE)
      ft == IF a_type = "ClassVar" THEN _FIELD_CLASSVAR
            ELSE IF a_type = "InitVar" THEN _FIELD_INITVAR ELSE _FIELD
      f == [f0 EXCEPT !._field_type = ft, !.name = a_name, !.type = a_type]
      err == IF ft \in {_FIELD_CLASSVAR, _FIELD_INITVAR} /\ HasFactory(f)
                THEN "PseudoFieldFactory"
             ELSE IF ft = _FIELD /\ IsMutableContainer(f.default)
                THEN "MutableDefault"
             ELSE NoErr
  IN [fobjs |-> IF isField THEN [fo EXCEPT ![id] = f] ELSE Append(fo, f),
      id |-> id, err |-> err, errName |-> a_name]

\* _find_fields: the list comprehension over __annotations__; the first
\* _get_field that raises ends it, the Field objects already touched stay
\* as they are.
RECURSIVE _find_fields(_, _, _, _, _)
_find_fields(cs, c, fo, i, acc) ==
  IF i > Len(cs[c].ann)
    THEN [fobjs |-> fo, ids |-> acc, err |-> NoErr, errName |-> "None"]
  ELSE LET r == _get_field(cs, c, fo, cs[c].ann[i].name, cs[c].ann[i].type)
       IN IF r.err # NoErr
            THEN [fobjs |-> r.fobjs, ids |-> acc, err |-> r.err, errName |-> r.errName]
          ELSE _find_fields(cs, c, r.fobjs, i + 1, Append(acc, r.id))

----------------------------------------------------------------------------
(* src/dataclasses.py: the generated functions.                            *)

\* An OrderedDict that moved a key it is given again to the end.
PutLast(tab, key, id) ==
  SelectSeq(tab, LAMBDA e : e.key # key) \o <<[key |-> key, id |-> id]>>

\* fields[key] = f on the OrderedDict: an existing key keeps its place.
Put(tab, key, id) ==
  IF \E i \in 1..Len(tab) : tab[i].key = key
    THEN [i \in 1..Len(tab) |->
            IF tab[i].key = key THEN [key |-> key, id |-> id] ELSE tab[i]]
  ELSE Append(tab, [key |-> key, id |-> id])

\* filter(pred, seq), for the predicates the engine uses.
RECURSIVE Filter(_, _)
Filter(seq, keep) ==
  IF seq = <<>> THEN <<>>
  ELSE (IF Head(seq) \in keep THEN <<Head(seq)>> ELSE <<>>) \o Filter(Tail(seq), keep)

FieldNamesOf(fs) == [i \in 1..Len(fs) |-> fs[i].name]

\* An _init_fn without the loop at its head.
NoOrderCheck(fs, i, seen_default) == "None"

\* The loop at the head of _init_fn: the name of the first field in the
\* __init__ call that has no default and follows one that has, or "None".
RECURSIVE _init_fn_order(_, _, _)
_init_fn_order(fs, i, seen_default) ==
  IF i > Len(fs) THEN "None"
  ELSE IF ~fs[i].init THEN _init_fn_order(fs, i + 1, seen_default)
  ELSE IF HasDefault(fs[i]) \/ HasFactory(fs[i]) THEN _init_fn_order(fs, i + 1, TRUE)
  ELSE IF seen_default THEN fs[i].name
  ELSE _init_fn_order(fs, i + 1, seen_default)

\* _init_fn: raises for a field out of order, else returns the function,
\* which closes over the fields as they are now, frozen and has_post_init.
_init_fn(fs, frozen, has_post_init) ==
  LET bad == _init_fn_order(fs, 1, FALSE)
  IN [err |-> IF bad # "None" THEN "FieldOrder" ELSE NoErr, errName |-> bad,
      fn |-> [fields |-> fs, frozen |-> frozen, has_post_init |-> has_post_init]]

\* _repr_fn, _hash_fn, _cmp_fn: the function closes over the field names.
_repr_fn(fs) == FieldNamesOf(fs)

_hash_fn(fs) == FieldNamesOf(fs)

_cmp_fn(fs) == FieldNamesOf(fs)

(* The decorator works on s = [cls, fobjs, err, errName]: the class being *)
(* processed, the Field objects, and the exception raised so far.  A step *)
(* after an exception does nothing.                                        *)

\* _set_attribute: refuses a name the class's own __dict__ already has.
_set_attribute(s, name, value) ==
  IF s.err # NoErr THEN s
  ELSE IF s.cls.dict[name] # Absent
    THEN [s EXCEPT !.err = "AttributeConflict", !.errName = name]
  ELSE [s EXCEPT !.cls = setattr(s.cls, name, value)]

----------------------------------------------------------------------------
(* src/dataclasses.py: _process_class.                                     *)

Range(seq) == {seq[i] : i \in 1..Len(seq)}

\* getattr(b, _MARKER, None): the table of the first class of b's __mro__
\* that has one (<<>> when none has).
RECURSIVE MarkerFrom(_, _, _)
MarkerFrom(cs, mro, i) ==
  IF i > Len(mro) THEN <<>>
  ELSE IF cs[mro[i]].dict["__dataclass_fields__"] = Marker THEN cs[mro[i]].fields
  ELSE MarkerFrom(cs, mro, i + 1)

\* for f in b_fields.values(): fields[f.name] = f
RECURSIVE PutAll(_, _, _, _)
PutAll(tab, b_fields, i, fo) ==
  IF i > Len(b_fields) THEN tab
  ELSE PutAll(Put(tab, fo[b_fields[i].id].name, b_fields[i].id), b_fields, i + 1, fo)

\* for b in cls.__mro__[-1:0:-1]: the bases' tables, the most basic first.
RECURSIVE BaseFields(_, _, _, _, _)
BaseFields(cs, fo, mro, i, tab) ==
  IF i < 2 THEN tab
  ELSE BaseFields(cs, fo, mro, i - 1,
                  PutAll(tab, MarkerFrom(cs, cs[mro[i]].mro, 1), 1, fo))

\* for f in _find_fields(cls): the class's own fields go into the table,
\* and a class attribute that is a Field object is replaced by the default
\* or deleted (deleting a name the class's own __dict__ lacks raises).
RECURSIVE OwnFields(_, _, _, _, _)
OwnFields(cs0, s, ids, i, tab) ==
  IF i > Len(ids) \/ s.err # NoErr THEN [s |-> s, tab |-> tab]
  ELSE LET f == s.fobjs[ids[i]]
           cur == getattr(Append(cs0, s.cls), Len(cs0) + 1, f.name)
           s1 == IF cur.tag # "Field" THEN s
                 ELSE IF HasDefault(f) THEN [s EXCEPT !.cls = setattr(s.cls, f.name, f.default)]
                 ELSE IF s.cls.dict[f.name] = Absent
                   THEN [s EXCEPT !.err = "AttributeError", !.errName = f.name]
                 ELSE [s EXCEPT !.cls = delattr(s.cls, f.name)]
       IN OwnFields(cs0, s1, ids, i + 1, Put(tab, f.name, ids[i]))

\* A hash option that did not look at frozen.
HashIgnoresFrozen(hash, eq, frozen) ==
  IF hash = "None" THEN (IF eq THEN "generate" ELSE "nothing")
  ELSE IF hash = "True" THEN "generate" ELSE "nothing"

\* The fields that go into __hash__: lambda f: f.compare if f.hash is None
\* else f.hash.
InHash(f) == IF f.hash = "None" THEN f.compare ELSE f.hash = "True"

\* What the hash option, eq and frozen decide about __hash__:
\* "generate" a function, "set_none", or "nothing".
HashAction(hash, eq, frozen) ==
  IF hash = "None"
    THEN IF eq /\ frozen THEN "generate"
         ELSE IF eq /\ ~frozen THEN "set_none"
         ELSE "nothing"
  ELSE IF hash = "True" THEN "generate" ELSE "nothing"

Raise(s, err, name) == IF s.err # NoErr THEN s ELSE [s EXCEPT !.err = err, !.errName = name]

(* _process_class, a step for each stretch of it.  Besides cls, fobjs,    *)
(* err and errName, s carries the function's locals: all (the values of   *)
(* fields), field_list and is_frozen.                                      *)

\* for f in _find_fields(cls): ..., after the bases' fields.
pc_own(cs0, s0, found, base) ==
  OwnFields(cs0, [s0 EXCEPT !.fobjs = found.fobjs, !.err = found.err,
                            !.errName = found.errName],
            found.ids, 1, base)

\* fields.values(), as Field objects.
AllFields(own) == [i \in 1..Len(own.tab) |-> own.s.fobjs[own.tab[i].id]]

\* field_list keeps the _FIELD entries; setattr(cls, _MARKER, fields).
pc_mark(own) ==
  IF own.s.err # NoErr THEN own.s
  ELSE [own.s EXCEPT
          !.cls = [setattr(own.s.cls, "__dataclass_fields__", Marker)
                     EXCEPT !.fields = own.tab],
          !.all = AllFields(own),
          !.field_list = Filter(AllFields(own),
                                {f \in Range(AllFields(own)) : f._field_type = _FIELD})]

pc_fields(cs0, s0) ==
  pc_mark(pc_own(cs0, s0,
                 _find_fields(Append(cs0, s0.cls), Len(cs0) + 1, s0.fobjs, 1, <<>>),
                 BaseFields(Append(cs0, s0.cls), s0.fobjs, s0.cls.mro,
                            Len(s0.cls.mro), <<>>)))

\* is_frozen = frozen or cls.__setattr__ is _frozen_setattr
pc_is_frozen(cs0, s, frozen) ==
  [s EXCEPT !.is_frozen =
     frozen \/ getattr(Append(cs0, s.cls), Len(cs0) + 1, "__setattr__") = _frozen_setattr]

\* if order and not eq: raise ValueError
pc_order_needs_eq(s, eq, order) ==
  IF order /\ ~eq THEN Raise(s, "OrderWithoutEq", "None") ELSE s

\* _set_attribute(cls, '__init__', _init_fn(...)): the argument is
\* evaluated, and may raise, before the name is looked at.
pc_set_init(s, initfn) ==
  IF initfn.err # NoErr THEN Raise(s, initfn.err, initfn.errName)
  ELSE LET t == _set_attribute(s, "__init__", Generated)
       IN IF t.err = NoErr THEN [t EXCEPT !.cls.init = initfn.fn] ELSE t

\* The same step with the list of real fields in place of the fields and
\* InitVars.
InitOverFieldList(cs0, s, init) ==
  IF ~init \/ s.err # NoErr THEN s
  ELSE pc_set_init(s, _init_fn(s.field_list, s.is_frozen,
                               hasattr(Append(cs0, s.cls), Len(cs0) + 1, _POST_INIT_NAME)))

\* if init: ..., over the fields that are _FIELD or _FIELD_INITVAR.
pc_init(cs0, s, init) ==
  IF ~init \/ s.err # NoErr THEN s
  ELSE pc_set_init(s, _init_fn(Filter(s.all, {f \in Range(s.all) :
                                         f._field_type \in {_FIELD, _FIELD_INITVAR}}),
                               s.is_frozen,
                               hasattr(Append(cs0, s.cls), Len(cs0) + 1, _POST_INIT_NAME)))

\* if repr: ...
pc_repr(s, repr) ==
  IF ~repr \/ s.err # NoErr THEN s
  ELSE LET t == _set_attribute(s, "__repr__", Generated)
       IN IF t.err = NoErr
            THEN [t EXCEPT !.cls.repr =
                    _repr_fn(Filter(s.field_list, {f \in Range(s.field_list) : f.repr}))]
          ELSE t

\* if is_frozen: ...
pc_frozen(s) ==
  IF ~s.is_frozen THEN s
  ELSE _set_attribute(_set_attribute(s, "__setattr__", _frozen_setattr),
                      "__delattr__", _frozen_delattr)

\* The __hash__ the class gets, if any.
pc_set_hash(s, what, fs) ==
  IF s.err # NoErr \/ what = "nothing" THEN s
  ELSE IF what = "set_none" THEN _set_attribute(s, "__hash__", PyNone)
  ELSE LET t == _set_attribute(s, "__hash__", Generated)
       IN IF t.err = NoErr THEN [t EXCEPT !.cls.hash = _hash_fn(fs)] ELSE t

pc_hash(s, hash, eq, frozen) ==
  pc_set_hash(s, HashAction(hash, eq, frozen),
              Filter(s.field_list, {f \in Range(s.field_list) : InHash(f)}))

\* if eq: _set_eq_fns(cls, the fields with compare)
pc_eq(s, eq) ==
  IF ~eq \/ s.err # NoErr THEN s
  ELSE LET t == _set_attribute(_set_attribute(s, "__eq__", Generated),
                               "__ne__", Generated)
       IN IF t.err = NoErr
            THEN [t EXCEPT !.cls.eq =
                    _cmp_fn(Filter(s.field_list, {f \in Range(s.field_list) : f.compare}))]
          ELSE t

\* if order: _set_order_fns(cls, the fields with compare)
pc_order(s, order) ==
  IF ~order \/ s.err # NoErr THEN s
  ELSE LET t == _set_attribute(_set_attribute(_set_attribute(_set_attribute(
                    s, "__lt__", Generated), "__le__", Generated),
                    "__gt__", Generated), "__ge__", Generated)
       IN IF t.err = NoErr
            THEN [t EXCEPT !.cls.order =
                    _cmp_fn(Filter(s.field_list, {f \in Range(s.field_list) : f.compare}))]
          ELSE t

_process_class(cs0, s0, repr, eq, order, hash, init, frozen) ==
  pc_order(
    pc_eq(
      pc_hash(
        pc_frozen(
          pc_repr(
            pc_init(cs0,
                    pc_order_needs_eq(pc_is_frozen(cs0, pc_fields(cs0, s0), frozen),
                                      eq, order),
                    init),
            repr)),
        hash, eq, frozen),
      eq),
    order)

----------------------------------------------------------------------------
(* src/dataclass.py: the earlier engine.  Its Field has cmp where the     *)
(* later one has compare (the record keeps the key compare), it leaves    *)
(* ClassVar annotations out of the table, and it has no InitVar.  Its     *)
(* _set_attribute, its OrderedDict and its walk over the bases read as    *)
(* those of src/dataclasses.py, whose definitions are used for both.      *)

\* _find_fields of src/dataclass.py: (name, type, Field) for each annotation
\* that is not a ClassVar; a plain default is wrapped in a new Field.
RECURSIVE dc_find_fields(_, _, _, _, _)
dc_find_fields(cs, c, fo, i, acc) ==
  IF i > Len(cs[c].ann) THEN [fobjs |-> fo, found |-> acc]
  ELSE LET a == cs[c].ann[i]
           default == getattr(cs, c, a.name)
           isField == default.tag = "Field"
           f == field(IF default = Absent THEN _MISSING ELSE default,
                      "MISSING", TRUE, TRUE, "None", TRUE)
       IN IF a.type = "ClassVar" THEN dc_find_fields(cs, c, fo, i + 1, acc)
          ELSE dc_find_fields(cs, c, IF isField THEN fo ELSE Append(fo, f), i + 1,
                 Append(acc, [name |-> a.name, type |-> a.type,
                              id |-> IF isField THEN default.v ELSE Len(fo) + 1]))

\* The loop "for name, type_, f in _find_fields(cls)" of _process_class,
\* with dynamic False: one field at a time, and the first check that fails
\* ends it with what was done before left in place.
RECURSIVE dc_own_fields(_, _, _, _, _)
dc_own_fields(cs0, s, found, i, tab) ==
  IF i > Len(found) \/ s.err # NoErr THEN [s |-> s, tab |-> tab]
  ELSE LET name == found[i].name
           id == found[i].id
           f0 == s.fobjs[id]
           f == [f0 EXCEPT !.name = name, !.type = found[i].type]
           sN == IF f0.name # "None" \/ f0.type # "None"
                   THEN Raise(s, "NameOrType", name)
                 ELSE [s EXCEPT !.fobjs[id] = f]
           sM == IF ~f.init /\ ~HasDefault(f) /\ ~HasFactory(f)
                   THEN Raise(sN, "MissingDefault", name)
                 ELSE sN
           cur == getattr(Append(cs0, sM.cls), Len(cs0) + 1, name)
           sA == IF sM.err # NoErr \/ cur.tag # "Field" THEN sM
                 ELSE IF HasDefault(f) THEN [sM EXCEPT !.cls = setattr(sM.cls, name, f.default)]
                 ELSE IF sM.cls.dict[name] = Absent THEN Raise(sM, "AttributeError", name)
                 ELSE [sM EXCEPT !.cls = delattr(sM.cls, name)]
           sD == IF IsMutableContainer(f.default) THEN Raise(sA, "MutableDefault", name)
                 ELSE sA
       IN dc_own_fields(cs0, sD, found, i + 1, Put(tab, name, id))

\* lambda f: f.hash or f.hash is None
dc_InHash(f) == f.hash = "True" \/ f.hash = "None"

\* The hash_mode switch of src/dataclass.py (cmp where the later engine
\* has eq).
dc_HashAction(hash, cmp, frozen) ==
  IF hash = "None"
    THEN IF cmp /\ frozen THEN "generate"
         ELSE IF cmp /\ ~frozen THEN "set_none"
         ELSE "nothing"
  ELSE IF hash = "True" THEN "generate" ELSE "nothing"

\* _init_fn of src/dataclass.py: the same check of the order; the function
\* it returns is run by dc_init.
dc_init_fn(fs, frozen, has_post_init) ==
  LET bad == _init_fn_order(fs, 1, FALSE)
  IN [err |-> IF bad # "None" THEN "FieldOrder" ELSE NoErr, errName |-> bad,
      fn |-> [fields |-> fs, frozen |-> frozen, has_post_init |-> has_post_init]]

\* The loop over the class's own fields, after the bases' fields.
dc_own(cs0, s0, found, base) ==
  dc_own_fields(cs0, [s0 EXCEPT !.fobjs = found.fobjs], found.found, 1, base)

\* field_list = list(fields.values()); setattr(cls, _MARKER, fields).
dc_mark(own) ==
  IF own.s.err # NoErr THEN own.s
  ELSE [own.s EXCEPT
          !.cls = [setattr(own.s.cls, "__dataclass_fields__", Marker)
                     EXCEPT !.fields = own.tab],
          !.all = AllFields(own),
          !.field_list = AllFields(own)]

dc_fields(cs0, s0) ==
  dc_mark(dc_own(cs0, s0,
                 dc_find_fields(Append(cs0, s0.cls), Len(cs0) + 1, s0.fobjs, 1, <<>>),
                 BaseFields(Append(cs0, s0.cls), s0.fobjs, s0.cls.mro,
                            Len(s0.cls.mro), <<>>)))

\* if init: ...
dc_init(cs0, s, init) ==
  IF ~init \/ s.err # NoErr THEN s
  ELSE pc_set_init(s, dc_init_fn(s.field_list, s.is_frozen,
                                 hasattr(Append(cs0, s.cls), Len(cs0) + 1,
                                         dc_POST_INIT_NAME)))

dc_hash(s, hash, cmp, frozen) ==
  pc_set_hash(s, dc_HashAction(hash, cmp, frozen),
              Filter(s.field_list, {f \in Range(s.field_list) : dc_InHash(f)}))

\* if cmp: _set_cmp_fns(cls, the fields with cmp), six functions.
dc_cmp(s, cmp) ==
  IF ~cmp \/ s.err # NoErr THEN s
  ELSE LET t == _set_attribute(_set_attribute(_set_attribute(_set_attribute(
                  _set_attribute(_set_attribute(s, "__eq__", Generated),
                      "__ne__", Generated), "__lt__", Generated),
                      "__le__", Generated), "__gt__", Generated),
                      "__ge__", Generated)
           fs == _cmp_fn(Filter(s.field_list, {f \in Range(s.field_list) : f.compare}))
       IN IF t.err = NoErr THEN [t EXCEPT !.cls.eq = fs, !.cls.order = fs] ELSE t

dc_process_class(cs0, s0, repr, cmp, hash, init, frozen) ==
  dc_cmp(
    dc_hash(
      pc_frozen(
        pc_repr(
          dc_init(cs0, pc_is_frozen(cs0, dc_fields(cs0, s0), frozen), init),
          repr)),
      hash, cmp, frozen),
    cmp)

----------------------------------------------------------------------------
(* The generated __init__.  Its text is a list of assignment lines; the   *)
(* model keeps a line as [name, value, direct]: value says where the      *)
(* value comes from ("param", "factory_unless_given", "factory"), direct  *)
(* whether the store is object.__setattr__ (a frozen class) or an         *)
(* ordinary assignment, which runs the class's __setattr__.               *)

\* An assignment that always goes through the class's __setattr__.
PlainAssign(frozen, name, value) == [name |-> name, value |-> value, direct |-> FALSE]

\* _field_assign
_field_assign(frozen, name, value) == [name |-> name, value |-> value, direct |-> frozen]

\* A _field_init that writes the assignment for an InitVar too.
StoresInitVar(f, frozen) ==
  IF ~HasFactory(f) /\ ~f.init THEN <<>>
  ELSE <<_field_assign(frozen, f.name,
                       IF HasFactory(f)
                         THEN (IF f.init THEN "factory_unless_given" ELSE "factory")
                       ELSE "param")>>

\* _field_init of src/dataclasses.py: the line for f, <<>> when f gets none.
_field_init(f, frozen) ==
  LET value == IF HasFactory(f)
                 THEN (IF f.init THEN "factory_unless_given" ELSE "factory")
               ELSE IF f.init THEN "param" ELSE "no_line"
  IN IF value = "no_line" \/ f._field_type = _FIELD_INITVAR THEN <<>>
     ELSE <<_field_assign(frozen, f.name, value)>>

\* body_lines of _init_fn (src/dataclasses.py), before the post-init call.
RECURSIVE body_lines(_, _, _)
body_lines(fs, i, frozen) ==
  IF i > Len(fs) THEN <<>>
  ELSE _field_init(fs[i], frozen) \o body_lines(fs, i + 1, frozen)

\* _init_param: the default of f's parameter; Absent for a required one.
_init_param(f) ==
  IF ~HasDefault(f) /\ ~HasFactory(f) THEN Absent
  ELSE IF HasDefault(f) THEN f.default
  ELSE _HAS_DEFAULT_FACTORY

\* _field_init of src/dataclass.py, for the fields with init.
dc_field_init(f, frozen) ==
  _field_assign(frozen, f.name, IF HasFactory(f) THEN "factory_unless_given" ELSE "param")

\* body_lines of _init_fn (src/dataclass.py): the fields with init, then,
\* for each field without init that has a factory, self.name = factory().
RECURSIVE dc_init_lines(_, _, _)
dc_init_lines(fs, i, frozen) ==
  IF i > Len(fs) THEN <<>>
  ELSE (IF fs[i].init THEN <<dc_field_init(fs[i], frozen)>> ELSE <<>>)
       \o dc_init_lines(fs, i + 1, frozen)

RECURSIVE dc_factory_lines(_, _)
dc_factory_lines(fs, i) ==
  IF i > Len(fs) THEN <<>>
  ELSE (IF ~fs[i].init /\ HasFactory(fs[i])
          THEN <<[name |-> fs[i].name, value |-> "factory", direct |-> FALSE]>>
        ELSE <<>>)
       \o dc_factory_lines(fs, i + 1)

dc_body_lines(fs, frozen) == dc_init_lines(fs, 1, frozen) \o dc_factory_lines(fs, 1)

\* _init_param of src/dataclass.py: a factory's parameter defaults to _MISSING.
dc_init_param(f) ==
  IF ~HasDefault(f) /\ ~HasFactory(f) THEN Absent
  ELSE IF HasDefault(f) THEN f.default
  ELSE _MISSING

----------------------------------------------------------------------------
(* Instances: [cls, dict, args], dict the instance's own attributes and  *)
(* args the arguments of the call that made it, kept to state the claims.  *)

NotGiven == [tag |-> "not_given", v |-> 0]

\* The __dict__ of a new instance.
NoAttrs == [a |-> Absent, b |-> Absent, c |-> Absent]

\* A factory called once, whose one list every instance gets.
SharedFactory(h) ==
  IF h = <<>> THEN [heap |-> <<<<>>>>, value |-> Ref(1)] ELSE [heap |-> h, value |-> Ref(1)]

\* Calling a default_factory.  The factory of the model is list: a new,
\* empty list object each time.
CallFactory(h) == [heap |-> Append(h, <<>>), value |-> Ref(Len(h) + 1)]

\* The first class of the __mro__ whose own __dict__ has the name (0: none).
RECURSIVE Definer(_, _, _, _)
Definer(cs, mro, i, name) ==
  IF i > Len(mro) THEN 0
  ELSE IF cs[mro[i]].dict[name] # Absent THEN mro[i]
  ELSE Definer(cs, mro, i + 1, name)

\* The value a call binds to the parameter of f: the argument, else the
\* parameter's default; Absent when a required argument is left out.
Bound(f, args, dflt) == IF args[f.name] # NotGiven THEN args[f.name] ELSE dflt

\* Assignment lines run with every default_factory called, whether or not
\* an argument was given.
RECURSIVE AlwaysCalls(_, _, _, _, _, _)
AlwaysCalls(lines, i, st, binding, sentinel, setter) ==
  IF i > Len(lines) \/ st.err # NoErr THEN st
  ELSE LET ln == lines[i]
           call == ln.value \in {"factory", "factory_unless_given"}
           made == CallFactory(st.heap)
           value == IF call /\ (ln.value = "factory" \/ binding[ln.name] = sentinel)
                      THEN made.value ELSE binding[ln.name]
           h == IF call THEN made.heap ELSE st.heap
       IN IF ~ln.direct /\ setter = _frozen_setattr
            THEN [st EXCEPT !.heap = h, !.err = "FrozenInstanceError"]
          ELSE AlwaysCalls(lines, i + 1,
                           [st EXCEPT !.heap = h, !.dict[ln.name] = value],
                           binding, sentinel, setter)

\* Running the assignment lines: st = [dict, heap, err].  An ordinary
\* assignment on a class whose __setattr__ is _frozen_setattr raises.
RECURSIVE RunLines(_, _, _, _, _, _)
RunLines(lines, i, st, binding, sentinel, setter) ==
  IF i > Len(lines) \/ st.err # NoErr THEN st
  ELSE LET ln == lines[i]
           given == binding[ln.name]
           call == ln.value = "factory" \/
                   (ln.value = "factory_unless_given" /\ given = sentinel)
           made == CallFactory(st.heap)
           value == IF call THEN made.value ELSE given
           h == IF call THEN made.heap ELSE st.heap
       IN IF ~ln.direct /\ setter = _frozen_setattr
            THEN [st EXCEPT !.heap = h, !.err = "FrozenInstanceError"]
          ELSE RunLines(lines, i + 1,
                        [st EXCEPT !.heap = h, !.dict[ln.name] = value],
                        binding, sentinel, setter)

\* The name of the hook the engine in use looks for.
PostInitName == IF module = "dataclass" THEN dc_POST_INIT_NAME ELSE _POST_INIT_NAME

\* The hook a program of the model writes assigns to its field a in the
\* ordinary way, self.a = ...; the value it stores.
HookValue == Int(MaxInt)

\* The last line of the generated __init__, self.__post_init__(...): the
\* hook is the function the instance's class finds under the name, and
\* its assignment runs the class's __setattr__.
post_init(cs, c, has_post_init, st) ==
  IF ~has_post_init \/ st.err # NoErr THEN st
  ELSE IF getattr(cs, c, PostInitName) # UserFn THEN [st EXCEPT !.err = "AttributeError"]
  ELSE IF getattr(cs, c, "__setattr__") = _frozen_setattr
    THEN [st EXCEPT !.err = "FrozenInstanceError"]
  ELSE [st EXCEPT !.dict["a"] = HookValue]

\* The body of the generated __init__ fn, before the post-init call.
InitLines(fn) ==
  IF module = "dataclass" THEN dc_body_lines(fn.fields, fn.frozen)
  ELSE body_lines(fn.fields, 1, fn.frozen)

\* The arguments of the post-init call: the names of the InitVars, in the
\* order of the fields; the __init__ of src/dataclass.py passes none.
params_str(fs) ==
  IF module = "dataclass" THEN <<>>
  ELSE FieldNamesOf(SelectSeq(fs, LAMBDA f : f._field_type = _FIELD_INITVAR))

\* cls(**args) for a class whose __init__ is a generated one.  The call
\* binds the parameters (a missing required argument is a TypeError), then
\* runs the body.
Call(cs, c, h, args) ==
  LET k == Definer(cs, cs[c].mro, 1, "__init__")
      fn == cs[k].init
      old == module = "dataclass"
      dflt(f) == IF old THEN dc_init_param(f) ELSE _init_param(f)
      binding == [n \in FieldNames |->
                    IF \E i \in 1..Len(fn.fields) : fn.fields[i].name = n /\ fn.fields[i].init
                      THEN LET j == CHOOSE i \in 1..Len(fn.fields) :
                                      fn.fields[i].name = n /\ fn.fields[i].init
                           IN Bound(fn.fields[j], args, dflt(fn.fields[j]))
                    ELSE NotGiven]
      missing == \E i \in 1..Len(fn.fields) :
                    fn.fields[i].init /\ binding[fn.fields[i].name] = Absent
      extra == \E n \in FieldNames :
                  /\ args[n] # NotGiven
                  /\ \A i \in 1..Len(fn.fields) : fn.fields[i].name = n => ~fn.fields[i].init
      lines == InitLines(fn)
      st0 == [dict |-> NoAttrs, heap |-> h, err |-> NoErr]
  IN IF missing \/ extra THEN [st0 EXCEPT !.err = "TypeError"]
     ELSE post_init(cs, c, fn.has_post_init,
                    RunLines(lines, 1, st0, binding,
                             IF old THEN _MISSING ELSE _HAS_DEFAULT_FACTORY,
                             getattr(cs, c, "__setattr__")))

\* '__slots__' in cls.__dict__: a class object made with __slots__ has the
\* two fields slots (the tuple of names) and name (the class whose
\* __name__ it carries; a class made by a class statement carries its own).
HasSlots(cls) == "slots" \in DOMAIN cls

\* obj.name when the instance holds no value for the name: the first
\* class of the __mro__ that has the name decides.  A class made with the
\* name in __slots__ has a slot descriptor under it, and reading an empty
\* slot raises AttributeError (Absent); another class gives its attribute.
RECURSIVE ClassRead(_, _, _, _)
ClassRead(cs, mro, i, name) ==
  IF i > Len(mro) THEN ObjectAttr(name)
  ELSE IF HasSlots(cs[mro[i]]) /\ name \in Range(cs[mro[i]].slots) THEN Absent
  ELSE IF cs[mro[i]].dict[name] # Absent THEN cs[mro[i]].dict[name]
  ELSE ClassRead(cs, mro, i + 1, name)

\* obj.name: the instance's own attribute, else what its class gives.
ReadAttr(cs, o, name) ==
  IF o.dict[name] # Absent THEN o.dict[name]
  ELSE ClassRead(cs, cs[o.cls].mro, 1, name)

\* What == compares and hash() hashes: an int by its value, a list by
\* its items.
Contents(h, v) == IF v.tag = "list" THEN [tag |-> "items", v |-> h[v.v]] ELSE v

\* (self.f1, self.f2, ...) for the names a generated function closes over.
TupleOf(cs, h, o, names) ==
  [i \in 1..Len(names) |-> Contents(h, ReadAttr(cs, o, names[i]))]

\* p == q where the __eq__ found on p's class is a generated one, that of
\* the class cs[k]: the two tuples when the classes are the same; else
\* NotImplemented from both sides, and == is identity (p and q are two
\* objects).
PyEq(cs, h, p, q, k) ==
  /\ p.cls = q.cls
  /\ TupleOf(cs, h, p, cs[k].eq) = TupleOf(cs, h, q, cs[k].eq)

\* hash() of a tuple of ints.  CPython mixes the items' hashes in order;
\* on the tuples of the model (ints 0..MaxInt, a few items) its values are
\* determined by the items and differ when the tuples differ, which is
\* what the positional code keeps.  hash(n) of a small int n is n.
RECURSIVE TupleHash(_)
TupleHash(items) ==
  IF items = <<>> THEN 0
  ELSE (Head(items).v + 1) + (MaxInt + 2) * TupleHash(Tail(items))

\* hash(o) where the __hash__ found on o's class is a generated one, that
\* of cs[k]: a list among the items is unhashable.
PyHash(cs, h, o, k) ==
  LET t == TupleOf(cs, h, o, cs[k].hash)
  IN IF \E i \in 1..Len(t) : t[i].tag # "int"
       THEN [err |-> "TypeError", value |-> 0]
     ELSE [err |-> NoErr, value |-> TupleHash(t)]

----------------------------------------------------------------------------
(* The operations of a program that uses the engine.                       *)

Init ==
  /\ module \in {"dataclasses", "dataclass"}
  /\ classes = <<>>
  /\ fobjs = <<>>
  /\ objs = <<>>
  /\ heap = <<>>
  /\ last = [op |-> "import", err |-> NoErr, errName |-> "None", id |-> 0, left |-> <<>>]

\* No statement of the program catches an exception: the program runs
\* until a statement raises one.
Running == last.err = NoErr

\* The class statement has run: the class exists, the Field objects its
\* body made exist, and the decorator has yet to work on it.
ClassStatement(cs, fo, bases, body, methods, pol) ==
  [cls |-> NewClass(cs, fo, bases, body, methods, pol),
   fobjs |-> BodyFields(body, 1, fo),
   err |-> NoErr, errName |-> "None",
   all |-> <<>>, field_list |-> <<>>, is_frozen |-> FALSE]

\* dataclass(): the decorator's defaults.
dataclass == [init |-> TRUE, repr |-> TRUE, eq |-> TRUE, order |-> FALSE,
              hash |-> "None", frozen |-> FALSE]

\* A class statement under @dataclass(**pol).  When the decorator raises,
\* the class is bound to no name: it is kept in last.left (with the Field
\* objects as they were then) and is no class of the program.  The
\* decorator of src/dataclass.py takes cmp for eq and has no order option.
Decorate(cs, fo, bases, body, methods, pol, engine) ==
  IF engine = "dataclass"
    THEN dc_process_class(cs, ClassStatement(cs, fo, bases, body, methods, pol),
                          pol.repr, pol.eq, pol.hash, pol.init, pol.frozen)
  ELSE _process_class(cs, ClassStatement(cs, fo, bases, body, methods, pol),
                      pol.repr, pol.eq, pol.order, pol.hash, pol.init, pol.frozen)

Bind(s) ==
  IF s.err = NoErr
    THEN /\ classes' = Append(classes, s.cls)
         /\ fobjs' = s.fobjs
         /\ last' = [op |-> "declare", err |-> NoErr, errName |-> "None",
                     id |-> Len(classes) + 1, left |-> <<>>]
  ELSE /\ classes' = classes
       /\ fobjs' = SubSeq(s.fobjs, 1, Len(fobjs))
       /\ last' = [op |-> "declare", err |-> s.err, errName |-> s.errName,
                   id |-> 0, left |-> <<[cls |-> s.cls, fobjs |-> s.fobjs]>>]

Declare(bases, body, methods, pol) ==
  /\ Running
  /\ module = "dataclass" => ~pol.order
  /\ Bind(Decorate(classes, fobjs, bases, body, methods, pol, module))
  /\ UNCHANGED <<module, objs, heap>>

\* The object a call of the class made, or the exception it raised.
NewObject(c, args, r) ==
  /\ heap' = r.heap
  /\ IF r.err = NoErr
       THEN /\ objs' = Append(objs, [cls |-> c, dict |-> r.dict,
                                    args |-> [a |-> args["a"], b |-> args["b"],
                                              c |-> args["c"]]])
            /\ last' = [op |-> "construct", err |-> NoErr, errName |-> "None",
                        id |-> Len(objs) + 1, left |-> <<>>]
     ELSE /\ objs' = objs
          /\ last' = [op |-> "construct", err |-> r.err, errName |-> "None",
                      id |-> c, left |-> <<>>]

\* classes[c](**args), where the __init__ the class finds is a generated one.
Construct(c, args) ==
  /\ Running
  /\ c \in 1..Len(classes)
  /\ getattr(classes, c, "__init__") = Generated
  /\ NewObject(c, args, Call(classes, c, heap, args))
  /\ UNCHANGED <<module, classes, fobjs>>

\* An instance has a __dict__ unless every class of its __mro__ was made
\* with __slots__.
InstanceHasDict(cs, c) == \E i \in 1..Len(cs[c].mro) : ~HasSlots(cs[cs[c].mro[i]])

IsSlot(cs, c, name) ==
  \E i \in 1..Len(cs[c].mro) :
    HasSlots(cs[cs[c].mro[i]]) /\ name \in Range(cs[cs[c].mro[i]].slots)

\* objs[o].name = value: type(o).__setattr__ runs.  _frozen_setattr raises;
\* object's stores the value, and so does the function a user writes
\* (src/tst.py, test_overwriting_frozen, stores into __dict__).
\* object.__setattr__ stores in a slot or in the __dict__, and raises
\* AttributeError when the instance has neither.
SetAttr(o, name, value) ==
  /\ Running
  /\ o \in 1..Len(objs)
  /\ IF getattr(classes, objs[o].cls, "__setattr__") = _frozen_setattr
       THEN /\ objs' = objs
            /\ last' = [op |-> "setattr", err |-> "FrozenInstanceError",
                        errName |-> name, id |-> o, left |-> <<>>]
     ELSE IF ~IsSlot(classes, objs[o].cls, name) /\ ~InstanceHasDict(classes, objs[o].cls)
       THEN /\ objs' = objs
            /\ last' = [op |-> "setattr", err |-> "AttributeError",
                        errName |-> name, id |-> o, left |-> <<>>]
     ELSE /\ objs' = [objs EXCEPT ![o].dict[name] = value]
          /\ last' = [op |-> "setattr", err |-> NoErr, errName |-> name,
                      id |-> o, left |-> <<>>]
  /\ UNCHANGED <<module, classes, fobjs, heap>>

\* del objs[o].name: type(o).__delattr__ runs.  _frozen_delattr raises;
\* otherwise the instance's own attribute goes, and deleting what the
\* instance does not have is an AttributeError.
DelAttr(o, name) ==
  /\ Running
  /\ o \in 1..Len(objs)
  /\ IF getattr(classes, objs[o].cls, "__delattr__") = _frozen_delattr
       THEN /\ objs' = objs
            /\ last' = [op |-> "delattr", err |-> "FrozenInstanceError",
                        errName |-> name, id |-> o, left |-> <<>>]
     ELSE IF objs[o].dict[name] = Absent
       THEN /\ objs' = objs
            /\ last' = [op |-> "delattr", err |-> "AttributeError",
                        errName |-> name, id |-> o, left |-> <<>>]
     ELSE /\ objs' = [objs EXCEPT ![o].dict[name] = Absent]
          /\ last' = [op |-> "delattr", err |-> NoErr, errName |-> name,
                      id |-> o, left |-> <<>>]
  /\ UNCHANGED <<module, classes, fobjs, heap>>

\* objs[o].name.append(o), for a field that holds a list: the item says
\* through which instance it came.
ListAppend(o, name) ==
  /\ Running
  /\ o \in 1..Len(objs)
  /\ ReadAttr(classes, objs[o], name).tag = "list"
  /\ Len(heap[ReadAttr(classes, objs[o], name).v]) < MaxLen
  /\ heap' = [heap EXCEPT ![ReadAttr(classes, objs[o], name).v] = Append(@, Int(o))]
  /\ last' = [op |-> "append", err |-> NoErr, errName |-> name, id |-> o, left |-> <<>>]
  /\ UNCHANGED <<module, classes, fobjs, objs>>

\* The keyword arguments of a call: values for some of the names.
ArgsOver(names, values) ==
  {[n \in FieldNames |-> IF n \in names THEN g[n] ELSE NotGiven] :
     g \in [names -> values \cup {NotGiven}]}

(* Inputs.  A body is a sequence of at most MaxOwn lines with distinct     *)
(* names; a shape is a line without its name.                              *)

Shape(type, form, value, f) == [type |-> type, form |-> form, value |-> value, f |-> f, ref |-> 0]

NoField == Field(_MISSING, "MISSING", TRUE, TRUE, "None", TRUE)

Bare(type) == Shape(type, "bare", Absent, NoField)
Plain(type, value) == Shape(type, "plain", value, NoField)
ViaField(type, f) == Shape(type, "field", Absent, f)

Line(name, sh) == [name |-> name, type |-> sh.type, form |-> sh.form,
                   value |-> sh.value, f |-> sh.f, ref |-> sh.ref]

RECURSIVE BodiesOfLen(_, _, _)
BodiesOfLen(names, shapes, k) ==
  IF k = 0 THEN {<<>>}
  ELSE {<<Line(n, sh)>> \o b :
          n \in names, sh \in shapes, b \in BodiesOfLen(names, shapes, k - 1)}

Bodies(names, shapes) ==
  {b \in UNION {BodiesOfLen(names, shapes, k) :
                  k \in 0..(IF MaxOwn < Cardinality(names) THEN MaxOwn
                            ELSE Cardinality(names))} :
     \A i, j \in 1..Len(b) : i # j => b[i].name # b[j].name}

\* The size of the program so far: its class statements and their
\* annotation lines.
RECURSIVE SizeFrom(_)
SizeFrom(c) ==
  IF c > Len(classes) THEN 0 ELSE 1 + Len(classes[c].ann) + SizeFrom(c + 1)

\* One more class statement with this body stays within MaxSize.
Fits(body) == SizeFrom(1) + 1 + Len(body) <= MaxSize

BaseChoices == {<<>>} \cup {<<b>> : b \in 1..Len(classes)}

----------------------------------------------------------------------------
(* Field order: class bodies over a, b, c whose defaults name the class   *)
(* that wrote them, in chains of inheritance.                              *)

DeclareOrdered ==
  /\ Len(classes) < MaxClasses
  /\ \E bases \in BaseChoices :
      \E body \in Bodies(FieldNames, {Plain("int", Int(Len(classes) + 1))}) :
        Declare(bases, body, {}, dataclass)

NextOrder == DeclareOrdered

SpecOrder == Init /\ [][NextOrder]_vars

\* The names of a table, in its order.
KeysOf(tab) == [i \in 1..Len(tab) |-> tab[i].key]

\* The names a class body annotates, in its order.
OwnNames(c) == [i \in 1..Len(classes[c].ann) |-> classes[c].ann[i].name]

\* The table a class inherits: that of its base (<<>> without one).
Inherited(c) ==
  IF Len(classes[c].mro) > 1 THEN classes[classes[c].mro[2]].fields ELSE <<>>

\* C1: the table of every class lists the inherited fields in their
\* inherited order, then the fields the class introduces in the order of
\* its body; a field the class declares carries the class's own default
\* (here the number of the class), every other one is the Field object of
\* the base's table.
C1_FieldOrder ==
  \A c \in 1..Len(classes) :
    LET tab == classes[c].fields
        inh == Inherited(c)
        new == SelectSeq(OwnNames(c), LAMBDA n : n \notin Range(KeysOf(inh)))
    IN /\ KeysOf(tab) = KeysOf(inh) \o new
       /\ \A i \in 1..Len(tab) :
            IF tab[i].key \in Range(OwnNames(c))
              THEN /\ fobjs[tab[i].id].default = Int(c)
                   /\ fobjs[tab[i].id].name = tab[i].key
                   /\ \A j \in 1..Len(inh) : inh[j].id # tab[i].id
            ELSE /\ i <= Len(inh)
                 /\ tab[i] = inh[i]

\* A derived class whose body first introduces a field and then declares
\* again the first of two inherited ones.
C1_Witness ==
  \E c \in 1..Len(classes) :
    /\ Len(Inherited(c)) = 2
    /\ Len(OwnNames(c)) = 2
    /\ OwnNames(c)[1] \notin Range(KeysOf(Inherited(c)))
    /\ OwnNames(c)[2] = Inherited(c)[1].key
    /\ Len(classes[c].fields) = 3

----------------------------------------------------------------------------
(* The order of required and defaulted fields: bodies over a and b with   *)
(* required, defaulted, init=False and ClassVar lines, with and without   *)
(* a generated __init__, alone or derived from the class before.           *)

OrderShapes ==
  {Bare("int"), Plain("int", Int(0)), Plain("ClassVar", Int(0)),
   ViaField("int", field(Int(0), "MISSING", FALSE, TRUE, "None", TRUE))}

ChainBases == {<<>>} \cup {<<b>> : b \in {Len(classes)} \ {0}}

OrderBodies == Bodies({"a", "b"}, OrderShapes)

DeclareInitOrder ==
  \E body \in OrderBodies :
    /\ Len(classes) < MaxClasses
    /\ Fits(body)
    /\ \E bases \in ChainBases :
         \E init \in BOOLEAN :
           Declare(bases, body, {}, [dataclass EXCEPT !.init = init])

NextInitOrder == DeclareInitOrder

SpecInitOrder == Init /\ [][NextInitOrder]_vars

\* The class statements to judge: the classes of the program, and the one
\* the last statement left behind when the decorator raised.
Declared ==
  {[cls |-> classes[c], fobjs |-> fobjs, failed |-> FALSE] : c \in 1..Len(classes)}
    \cup {[cls |-> last.left[i].cls, fobjs |-> last.left[i].fobjs, failed |-> TRUE] :
            i \in 1..Len(last.left)}

\* The fields of a table that are parameters of __init__, as Field objects.
InitParticipating(d) ==
  LET all == [i \in 1..Len(d.cls.fields) |-> d.fobjs[d.cls.fields[i].id]]
  IN SelectSeq(all, LAMBDA f : f.init /\ f._field_type # _FIELD_CLASSVAR)

\* The first field without default or factory that follows one with
\* either ("None" when there is none).
FirstRequiredAfterDefault(fs) ==
  LET bad == {j \in 1..Len(fs) :
                /\ ~HasDefault(fs[j]) /\ ~HasFactory(fs[j])
                /\ \E i \in 1..(j - 1) : HasDefault(fs[i]) \/ HasFactory(fs[i])}
  IN IF bad = {} THEN "None"
     ELSE fs[CHOOSE j \in bad : \A k \in bad : j <= k].name

----------------------------------------------------------------------------
(* The hash option: every combination of hash, eq and frozen, on a class  *)
(* alone or derived from the class before.                                 *)

HashPolicies ==
  {[dataclass EXCEPT !.hash = h, !.eq = e, !.frozen = f] :
     h \in {"None", "True", "False"}, e \in BOOLEAN, f \in BOOLEAN}

HashPolicyBodies == Bodies({"a"}, {Bare("int")})

DeclareHashPolicy ==
  \E body \in HashPolicyBodies :
    /\ Len(classes) < MaxClasses
    /\ Fits(body)
    /\ \E bases \in ChainBases :
         \E pol \in HashPolicies :
           Declare(bases, body, {}, pol)

NextHashPolicy == DeclareHashPolicy

SpecHashPolicy == Init /\ [][NextHashPolicy]_vars

----------------------------------------------------------------------------
(* Equality and hash: one field with each setting of its compare and hash *)
(* flags, on classes with a generated __eq__ and __hash__, and instances  *)
(* with each value of the field.                                           *)

FlagShapes ==
  {ViaField("int", field(_MISSING, "MISSING", TRUE, TRUE, h, c)) :
     h \in {"None", "True", "False"}, c \in BOOLEAN}

FlagBodies == {b \in Bodies({"a"}, FlagShapes) : b # <<>>}

DeclareFlags ==
  \E body \in FlagBodies :
    /\ Len(classes) < MaxClasses
    /\ Fits(body)
    /\ \E pol \in {[dataclass EXCEPT !.hash = "True"], [dataclass EXCEPT !.frozen = TRUE]} :
         Declare(<<>>, body, {}, pol)

ConstructFlags ==
  /\ Len(objs) < MaxObjs
  /\ \E c \in 1..Len(classes) :
       \E args \in ArgsOver({"a"}, {Int(n) : n \in 0..MaxInt}) :
         Construct(c, args)

NextHash == DeclareFlags \/ ConstructFlags

SpecHash == Init /\ [][NextHash]_vars

\* C3 as stated: two instances of a class with a generated __eq__ and a
\* generated __hash__ that are equal have the same hash.
C3_EqualImpliesSameHash ==
  \A p, q \in 1..Len(objs) :
    LET c == objs[p].cls
        ke == Definer(classes, classes[c].mro, 1, "__eq__")
        kh == Definer(classes, classes[c].mro, 1, "__hash__")
    IN (/\ getattr(classes, c, "__eq__") = Generated
        /\ getattr(classes, c, "__hash__") = Generated
        /\ PyEq(classes, heap, objs[p], objs[q], ke))
       => PyHash(classes, heap, objs[p], kh) = PyHash(classes, heap, objs[q], kh)

----------------------------------------------------------------------------
(* Methods the user wrote: a class with at most one of the six methods,   *)
(* under policies that switch one generated method on or off, alone or    *)
(* derived from the class before.                                          *)

Guarded == {"__init__", "__repr__", "__eq__", "__hash__", "__setattr__", "__delattr__"}

ConflictPolicies ==
  {dataclass,
   [dataclass EXCEPT !.init = FALSE], [dataclass EXCEPT !.repr = FALSE],
   [dataclass EXCEPT !.eq = FALSE], [dataclass EXCEPT !.hash = "False"],
   [dataclass EXCEPT !.frozen = TRUE],
   [dataclass EXCEPT !.frozen = TRUE, !.hash = "False"]}

ConflictBodies == Bodies({"a"}, {Bare("int")})

DeclareWithMethod ==
  \E body \in ConflictBodies :
    /\ Len(classes) < MaxClasses
    /\ Fits(body)
    /\ \E bases \in ChainBases :
         \E pol \in ConflictPolicies :
           \E methods \in {{}} \cup {{m} : m \in Guarded} :
             Declare(bases, body, methods, pol)

NextConflict == DeclareWithMethod

SpecConflict == Init /\ [][NextConflict]_vars

\* The policy asks the engine to set the method on the class.
Asked(pol, m) ==
  CASE m = "__init__" -> pol.init
    [] m = "__repr__" -> pol.repr
    [] m = "__eq__" -> pol.eq
    [] m = "__hash__" -> pol.hash = "True" \/ (pol.hash = "None" /\ pol.eq)
    [] OTHER -> pol.frozen

\* C5 as stated: a class statement whose body defines one of the six
\* methods fails, with an error that names the method, when the policy
\* asks for that method, and the user's function stays; it succeeds, the
\* user's function in place, when the policy does not ask for it; and a
\* body that defines none of them succeeds whatever the ancestors define.
C5_NoSilentOverwrite ==
  \A d \in Declared :
    /\ \A m \in Guarded :
         d.cls.ns[m] = UserFn =>
           /\ d.cls.dict[m] = UserFn
           /\ IF Asked(d.cls.pol, m)
                THEN /\ d.failed
                     /\ last.err = "AttributeConflict"
                     /\ last.errName = m
              ELSE ~d.failed
    /\ (\A m \in Guarded : d.cls.ns[m] # UserFn) => ~d.failed

----------------------------------------------------------------------------
(* Frozen classes: a frozen class, and classes derived from it with and   *)
(* without frozen and with and without a __setattr__ of their own; their  *)
(* instances are written to and deleted from.                              *)

Factory(init) == ViaField("list", field(_MISSING, "list", init, TRUE, "None", TRUE))

FrozenBodies ==
  {b \in Bodies({"a", "b"}, {Bare("int"), Factory(TRUE), Factory(FALSE)}) :
     \A i \in 1..Len(b) : (b[i].name = "a") <=> (b[i].form = "bare")}

DeclareFrozen ==
  \E body \in FrozenBodies :
    /\ Len(classes) < MaxClasses
    /\ Fits(body)
    /\ \E bases \in ChainBases :
         \E frozen \in BOOLEAN :
           \E methods \in {{}, {"__setattr__"}} :
             /\ bases = <<>> => frozen
             /\ Declare(bases, body, methods, [dataclass EXCEPT !.frozen = frozen])

ConstructFrozen ==
  /\ Len(objs) < MaxObjs
  /\ \E c \in 1..Len(classes) :
       \E args \in ArgsOver({"a"}, {Int(0)}) :
         Construct(c, args)

WriteFrozen ==
  \E o \in 1..Len(objs) :
    \E name \in {"a", "b"} :
      SetAttr(o, name, Int(MaxInt))

DeleteFrozen ==
  \E o \in 1..Len(objs) :
    \E name \in {"a", "b"} :
      DelAttr(o, name)

NextFrozen == DeclareFrozen \/ ConstructFrozen \/ WriteFrozen \/ DeleteFrozen

SpecFrozen == Init /\ [][NextFrozen]_vars

\* The class a construct, write or delete just ran on.
LastClass ==
  IF last.op = "construct" /\ last.err # NoErr THEN last.id ELSE objs[last.id].cls

\* The fields of the class's table that instances store.
StoredFields(c) ==
  SelectSeq([i \in 1..Len(classes[c].fields) |-> fobjs[classes[c].fields[i].id]],
            LAMBDA f : f._field_type \notin {_FIELD_CLASSVAR, _FIELD_INITVAR})

\* Every stored field of the instance holds what the constructor bound:
\* the argument, else the default, else a list from the factory.
HoldsBoundValues(o) ==
  \A i \in 1..Len(StoredFields(o.cls)) :
    LET f == StoredFields(o.cls)[i]
        v == ReadAttr(classes, o, f.name)
    IN IF f.init /\ o.args[f.name] # NotGiven THEN v = o.args[f.name]
       ELSE IF HasDefault(f) THEN v = f.default
       ELSE v.tag = "list"

\* What the claims say of the instances of the classes in a set: calls
\* that bind every required argument make an instance, the instance holds
\* the values bound and keeps them, and every write and delete raises
\* FrozenInstanceError.
BehavesFrozen(cs) ==
  /\ last.op = "construct" /\ LastClass \in cs => last.err \in {NoErr, "TypeError"}
  /\ last.op \in {"setattr", "delattr"} /\ LastClass \in cs =>
       last.err = "FrozenInstanceError"
  /\ \A o \in 1..Len(objs) : objs[o].cls \in cs => HoldsBoundValues(objs[o])

\* C6 as stated: the instances of a class declared frozen.
C6_FrozenInstances ==
  BehavesFrozen({c \in 1..Len(classes) : classes[c].pol.frozen})

\* C7 as stated: the instances of a class derived from a class declared
\* frozen.
C7_FrozenInherited ==
  BehavesFrozen({c \in 1..Len(classes) :
                   \E i \in 2..Len(classes[c].mro) : classes[classes[c].mro[i]].pol.frozen})

----------------------------------------------------------------------------
(* Mutable defaults: list, dict, set and a subclass of list as the plain  *)
(* default of an ordinary field and of a ClassVar.                         *)

Containers == {"list", "dict", "set", "sublist"}

MutableShapes ==
  {Plain("int", Int(0))}
    \cup {Plain("list", Literal(k)) : k \in Containers}
    \cup {Plain("ClassVar", Literal(k)) : k \in Containers}

MutableBodies == Bodies({"a", "b"}, MutableShapes)

DeclareMutable ==
  \E body \in MutableBodies :
    /\ Len(classes) < MaxClasses
    /\ Fits(body)
    /\ Declare(<<>>, body, {}, dataclass)

NextMutable == DeclareMutable

SpecMutable == Init /\ [][NextMutable]_vars

\* The lines of a class body that give an ordinary field a container as
\* its plain default.
MutableLines(cls) ==
  {i \in 1..Len(cls.ann) :
     /\ cls.ann[i].type # "ClassVar"
     /\ cls.ns[cls.ann[i].name].tag \in Containers}

\* C8: a class statement with an ordinary field whose plain default is a
\* list, a dict, a set or an instance of a subclass fails with the
\* mutable-default error that names the first such field; a body where
\* only ClassVar lines have such values is accepted.
C8_MutableDefault ==
  \A d \in Declared :
    IF MutableLines(d.cls) = {}
      THEN ~d.failed
    ELSE /\ d.failed
         /\ last.err = "MutableDefault"
         /\ \E i \in MutableLines(d.cls) :
              /\ \A j \in MutableLines(d.cls) : i <= j
              /\ last.errName = d.cls.ann[i].name

\* A class whose only line is a ClassVar with a set was accepted, and then
\* a body is refused for its ordinary field whose default is an instance
\* of a subclass of list.
C8_Witness ==
  /\ last.err = "MutableDefault"
  /\ Len(last.left) = 1
  /\ Len(last.left[1].cls.ann) = 1
  /\ last.left[1].cls.ann[1].type # "ClassVar"
  /\ last.left[1].cls.ns[last.left[1].cls.ann[1].name] = Literal("sublist")
  /\ last.errName = last.left[1].cls.ann[1].name
  /\ \E c \in 1..Len(classes) :
       /\ Len(classes[c].ann) = 1
       /\ classes[c].ann[1].type = "ClassVar"
       /\ classes[c].ns[classes[c].ann[1].name] = Literal("set")

----------------------------------------------------------------------------
(* Default factories: a field b whose default_factory is list, in and out *)
(* of the constructor; instances made with and without a value for b, and *)
(* appends to the lists they hold.                                         *)

FactoryBodies == {b \in Bodies({"b"}, {Factory(TRUE), Factory(FALSE)}) : b # <<>>}

DeclareFactory ==
  \E body \in FactoryBodies :
    /\ Len(classes) < MaxClasses
    /\ Fits(body)
    /\ Declare(<<>>, body, {}, dataclass)

ConstructFactory ==
  /\ Len(objs) < MaxObjs
  /\ \E c \in 1..Len(classes) :
       \E args \in ArgsOver({"b"}, {Int(0)}) :
         Construct(c, args)

AppendFactory == \E o \in 1..Len(objs) : ListAppend(o, "b")

NextFactory == DeclareFactory \/ ConstructFactory \/ AppendFactory

SpecFactory == Init /\ [][NextFactory]_vars

\* C9: a class with a field whose default_factory is list is accepted;
\* instances made without a value for the field hold lists that are
\* different objects, and a list holds only what was appended through the
\* instance that holds it.
C9_FreshLists ==
  /\ \A d \in Declared : ~d.failed
  /\ \A p \in 1..Len(objs) :
       objs[p].args["b"] = NotGiven =>
         /\ objs[p].dict["b"].tag = "list"
         /\ \A i \in 1..Len(heap[objs[p].dict["b"].v]) :
              heap[objs[p].dict["b"].v][i] = Int(p)
         /\ \A q \in 1..Len(objs) :
              q # p /\ objs[q].args["b"] = NotGiven => objs[q].dict["b"] # objs[p].dict["b"]

\* Two instances made without a value for b; one list was appended to and
\* the other is still empty.
C9_Witness ==
  \E p, q \in 1..Len(objs) :
    /\ p # q
    /\ objs[p].args["b"] = NotGiven /\ objs[q].args["b"] = NotGiven
    /\ objs[p].dict["b"].tag = "list" /\ objs[q].dict["b"].tag = "list"
    /\ heap[objs[p].dict["b"].v] = <<Int(p)>>
    /\ heap[objs[q].dict["b"].v] = <<>>

----------------------------------------------------------------------------
(* Fields left out of the constructor: init=False with and without a      *)
(* default.                                                                *)

NoInitShapes ==
  {Bare("int"),
   ViaField("int", field(_MISSING, "MISSING", FALSE, TRUE, "None", TRUE)),
   ViaField("int", field(Int(0), "MISSING", FALSE, TRUE, "None", TRUE))}

NoInitBodies == Bodies({"a", "b"}, NoInitShapes)

DeclareNoInit ==
  \E body \in NoInitBodies :
    /\ Len(classes) < MaxClasses
    /\ Fits(body)
    /\ Declare(<<>>, body, {}, dataclass)

NextNoInit == DeclareNoInit

SpecNoInit == Init /\ [][NextNoInit]_vars

\* The lines of a class body that are field(init=False) with neither a
\* default nor a default_factory.
NeverSetLines(d) ==
  {i \in 1..Len(d.cls.ann) :
     /\ d.cls.ns[d.cls.ann[i].name].tag = "Field"
     /\ ~d.fobjs[d.cls.ns[d.cls.ann[i].name].v].init
     /\ ~HasDefault(d.fobjs[d.cls.ns[d.cls.ann[i].name].v])
     /\ ~HasFactory(d.fobjs[d.cls.ns[d.cls.ann[i].name].v])}

\* C10 as stated: a class statement with a field that is out of the
\* constructor and has neither default nor default_factory fails with the
\* missing-default error that names the first such field.
C10_MissingDefault ==
  \A d \in Declared :
    NeverSetLines(d) # {} =>
      /\ d.failed
      /\ last.err = "MissingDefault"
      /\ \E i \in NeverSetLines(d) :
           /\ \A j \in NeverSetLines(d) : i <= j
           /\ last.errName = d.cls.ann[i].name

----------------------------------------------------------------------------
(* Comparisons.  An operand is an instance of the program, objs[o], or a  *)
(* plain tuple of ints; a comparison function returns "True", "False" or  *)
(* "NotImplemented".                                                       *)

Instance(o) == [kind |-> "obj", o |-> o, items |-> <<>>]
PlainTuple(items) == [kind |-> "tuple", o |-> 0, items |-> items]

\* x.__class__: a class of the program, or 0 for the builtin tuple.
ClassOf(x) == IF x.kind = "obj" THEN objs[x.o].cls ELSE 0

Bool(b) == IF b THEN "True" ELSE "False"

CmpOps == {"__eq__", "__ne__", "__lt__", "__le__", "__gt__", "__ge__"}

\* The method Python tries on the other operand.
Reflected(op) ==
  CASE op = "__lt__" -> "__gt__"
    [] op = "__gt__" -> "__lt__"
    [] op = "__le__" -> "__ge__"
    [] op = "__ge__" -> "__le__"
    [] OTHER -> op

\* s < t for two tuples of ints.
LexLess(s, t) ==
  \/ \E i \in 1..Len(s) :
       /\ i <= Len(t)
       /\ \A j \in 1..(i - 1) : s[j] = t[j]
       /\ s[i].v < t[i].v
  \/ /\ Len(s) < Len(t)
     /\ \A j \in 1..Len(s) : s[j] = t[j]

\* self_tuple op other_tuple
TupleCmp(op, s, t) ==
  CASE op = "__eq__" -> s = t
    [] op = "__ne__" -> s # t
    [] op = "__lt__" -> LexLess(s, t)
    [] op = "__le__" -> s = t \/ LexLess(s, t)
    [] op = "__gt__" -> LexLess(t, s)
    [] OTHER -> s = t \/ LexLess(t, s)

\* isinstance(other, self.__class__): a subclass instance passes.
IsInstanceOfSelf(self, other) ==
  /\ other.kind = "obj"
  /\ \E i \in 1..Len(classes[ClassOf(other)].mro) :
       classes[ClassOf(other)].mro[i] = ClassOf(self)

\* other.__class__ is self.__class__
IsSameClass(self, other) == ClassOf(other) = ClassOf(self)

\* Tuples of all the names of the table of the class k, whatever their
\* compare flag.
AllNames(k, op) == [i \in 1..Len(classes[k].fields) |-> classes[k].fields[i].key]

\* The tuples a generated comparison of the class k builds.
CmpNames(k, op) ==
  IF op \in {"__eq__", "__ne__"} THEN classes[k].eq ELSE classes[k].order

\* The function _cmp_fn made for the class k, called as fn(self, other).
GeneratedCmp(k, op, self, other) ==
  IF IsSameClass(self, other)
    THEN Bool(TupleCmp(op, TupleOf(classes, heap, objs[self.o], CmpNames(k, op)),
                           TupleOf(classes, heap, objs[other.o], CmpNames(k, op))))
  ELSE "NotImplemented"

\* _ne of src/dataclass.py: self.__eq__(other), negated unless it is
\* NotImplemented.  The __eq__ is the one self's class finds.
dc_ne(eq_result) ==
  IF eq_result = "NotImplemented" THEN "NotImplemented"
  ELSE Bool(eq_result = "False")

\* The comparison methods of builtin object: __eq__ knows only identity,
\* __ne__ goes by __eq__, the others know nothing.
ObjectCmp(op, x, y) ==
  IF op \in {"__eq__", "__ne__"} /\ x = y THEN Bool(op = "__eq__")
  ELSE "NotImplemented"

\* type(x).op(x, y) for a generated function or the one of object; a
\* tuple knows how to compare itself with tuples only.
MethodCall(x, op, y) ==
  IF x.kind = "tuple" THEN "NotImplemented"
  ELSE IF getattr(classes, ClassOf(x), op) # Generated THEN ObjectCmp(op, x, y)
  ELSE IF module = "dataclass" /\ op = "__ne__"
    THEN dc_ne(IF getattr(classes, ClassOf(x), "__eq__") = Generated
                 THEN GeneratedCmp(Definer(classes, classes[ClassOf(x)].mro, 1, "__eq__"),
                                   "__eq__", x, y)
               ELSE ObjectCmp("__eq__", x, y))
  ELSE GeneratedCmp(Definer(classes, classes[ClassOf(x)].mro, 1, op), op, x, y)

\* The operand on the right goes first when its class is a proper
\* subclass of the class of the operand on the left.
ReflectedFirst(x, y) ==
  /\ x.kind = "obj" /\ y.kind = "obj"
  /\ ClassOf(x) # ClassOf(y)
  /\ IsInstanceOfSelf(x, y)

\* When both operands answer NotImplemented: == and != fall back on
\* identity, an ordering is a TypeError.
CompareFallback(x, op, y) ==
  CASE op = "__eq__" -> Bool(x = y)
    [] op = "__ne__" -> Bool(x # y)
    [] OTHER -> "TypeError"

CompareSecond(x, op, y, first) ==
  IF first # "NotImplemented" THEN first
  ELSE IF ReflectedFirst(x, y) THEN MethodCall(x, op, y)
  ELSE MethodCall(y, Reflected(op), x)

CompareLast(x, op, y, second) ==
  IF second # "NotImplemented" THEN second ELSE CompareFallback(x, op, y)

\* x op y, as the interpreter evaluates it.
RichCompare(x, op, y) ==
  CompareLast(x, op, y,
    CompareSecond(x, op, y,
      IF ReflectedFirst(x, y) THEN MethodCall(y, Reflected(op), x)
      ELSE MethodCall(x, op, y)))

\* The comparison methods of the class are generated ones or object's.
PlainlyComparable(x) ==
  x.kind = "obj" =>
    \A op \in CmpOps : getattr(classes, ClassOf(x), op) \in {Generated, FromObject}

\* objs[p] op y
Compare(p, op, y) ==
  /\ Running
  /\ p \in 1..Len(objs)
  /\ PlainlyComparable(Instance(p)) /\ PlainlyComparable(y)
  /\ last' = [op |-> "compare",
              err |-> IF RichCompare(Instance(p), op, y) = "TypeError"
                        THEN "TypeError" ELSE NoErr,
              errName |-> op, id |-> p, left |-> <<>>,
              other |-> y, value |-> RichCompare(Instance(p), op, y)]
  /\ UNCHANGED <<module, classes, fobjs, objs, heap>>

(* Programs that compare: classes with one int field a, alone or derived  *)
(* from the class before, with and without eq and order; their instances  *)
(* compared with each other and with the tuple of the same value.  A      *)
(* comparison changes nothing the program holds, so a program of this     *)
(* kind ends with its first comparison.                                    *)

NotCompared == last.op # "compare"

ComparePolicies ==
  {dataclass, [dataclass EXCEPT !.order = TRUE], [dataclass EXCEPT !.eq = FALSE]}

CompareBodies == {b \in Bodies({"a"}, {Bare("int")}) : b # <<>>}

DeclareCompared ==
  \E body \in CompareBodies :
    /\ NotCompared
    /\ Len(classes) < MaxClasses
    /\ Fits(body)
    /\ \E bases \in ChainBases :
         \E pol \in ComparePolicies :
           Declare(bases, body, {}, pol)

ConstructCompared ==
  /\ NotCompared
  /\ Len(objs) < MaxObjs
  /\ \E c \in 1..Len(classes) :
       \E args \in ArgsOver({"a"}, {Int(n) : n \in 0..MaxInt}) :
         Construct(c, args)

CompareInstances ==
  /\ NotCompared
  /\ \E p, q \in 1..Len(objs) : \E op \in CmpOps : Compare(p, op, Instance(q))

CompareWithTuple ==
  /\ NotCompared
  /\ \E p \in 1..Len(objs) : \E op \in CmpOps :
       Compare(p, op, PlainTuple(TupleOf(classes, heap, objs[p], <<"a">>)))

NextCompare ==
  DeclareCompared \/ ConstructCompared \/ CompareInstances \/ CompareWithTuple

SpecCompare == Init /\ [][NextCompare]_vars

\* C11: when an instance is compared with an operand of another class (an
\* instance of an unrelated class, of a subclass or of a base class, or a
\* plain tuple) and the method its class finds is a generated one, that
\* method returns NotImplemented; == is then False, != is True, and an
\* ordering raises TypeError.
C11_OtherClassNotComparable ==
  (/\ last.op = "compare"
   /\ ClassOf(last.other) # objs[last.id].cls
   /\ getattr(classes, objs[last.id].cls, last.errName) = Generated)
  => /\ MethodCall(Instance(last.id), last.errName, last.other) = "NotImplemented"
     /\ last.errName = "__eq__" => last.value = "False"
     /\ last.errName = "__ne__" => last.value = "True"
     /\ last.errName \notin {"__eq__", "__ne__"} =>
          last.value = "TypeError" /\ last.err = "TypeError"

\* An instance was compared by == with an instance of a subclass that
\* holds the same value, and the answer was False.
C11_Witness ==
  /\ last.op = "compare"
  /\ last.errName = "__eq__"
  /\ last.other.kind = "obj"
  /\ ClassOf(last.other) # objs[last.id].cls
  /\ IsInstanceOfSelf(Instance(last.id), last.other)
  /\ getattr(classes, objs[last.id].cls, "__eq__") = Generated
  /\ objs[last.other.o].dict = objs[last.id].dict
  /\ last.value = "False"

----------------------------------------------------------------------------
(* Positional construction, repr() and hash().                             *)

\* The parameters of the __init__ the class finds, in order.
InitParams(c) ==
  SelectSeq(classes[Definer(classes, classes[c].mro, 1, "__init__")].init.fields,
            LAMBDA f : f.init)

\* The keyword form of cls(*values): the values go to the parameters of
\* the generated __init__ in order.
Positional(params, values) ==
  [n \in FieldNames |->
     IF \E i \in 1..Len(values) : params[i].name = n
       THEN values[CHOOSE i \in 1..Len(values) : params[i].name = n]
     ELSE NotGiven]

\* classes[c](*values): more values than parameters is a TypeError.
ConstructPositional(c, values) ==
  /\ Running
  /\ c \in 1..Len(classes)
  /\ getattr(classes, c, "__init__") = Generated
  /\ IF Len(values) > Len(InitParams(c))
       THEN /\ last' = [op |-> "construct", err |-> "TypeError", errName |-> "None",
                        id |-> c, left |-> <<>>]
            /\ UNCHANGED <<objs, heap>>
     ELSE NewObject(c, Positional(InitParams(c), values),
                    Call(classes, c, heap, Positional(InitParams(c), values)))
  /\ UNCHANGED <<module, classes, fobjs>>

\* The text a generated __repr__ returns, kept in its parts: the class
\* and which of its names is printed, the separator, and name=value for
\* each field of the function.  src/dataclasses.py prints __qualname__ and
\* joins with ', '; src/dataclass.py prints __name__ and joins with ','.
ReprText(o, k) ==
  [cls |-> objs[o].cls,
   name |-> IF module = "dataclass" THEN "__name__" ELSE "__qualname__",
   sep |-> IF module = "dataclass" THEN "," ELSE ", ",
   fields |-> [i \in 1..Len(classes[k].repr) |->
                 [name |-> classes[k].repr[i],
                  value |-> ReadAttr(classes, objs[o], classes[k].repr[i])]]]

\* repr(objs[o]), for a class whose __repr__ is a generated one.
CallRepr(o) ==
  /\ Running
  /\ o \in 1..Len(objs)
  /\ getattr(classes, objs[o].cls, "__repr__") = Generated
  /\ last' = [op |-> "repr", err |-> NoErr, errName |-> "None", id |-> o, left |-> <<>>,
              value |-> ReprText(o, Definer(classes, classes[objs[o].cls].mro, 1, "__repr__"))]
  /\ UNCHANGED <<module, classes, fobjs, objs, heap>>

\* hash(objs[o]): a class whose __hash__ is None is unhashable, a generated
\* __hash__ hashes the tuple, and object's __hash__ goes by identity.
HashResult(o) ==
  LET h == getattr(classes, objs[o].cls, "__hash__")
  IN IF h = PyNone THEN [err |-> "TypeError", value |-> 0, by |-> "unhashable"]
     ELSE IF h = Generated
       THEN [err |-> PyHash(classes, heap, objs[o],
                            Definer(classes, classes[objs[o].cls].mro, 1, "__hash__")).err,
             value |-> PyHash(classes, heap, objs[o],
                              Definer(classes, classes[objs[o].cls].mro, 1, "__hash__")).value,
             by |-> "tuple"]
     ELSE [err |-> NoErr, value |-> o, by |-> "identity"]

CallHash(o) ==
  /\ Running
  /\ o \in 1..Len(objs)
  /\ getattr(classes, objs[o].cls, "__hash__") \in {PyNone, Generated, FromObject}
  /\ last' = [op |-> "hash", err |-> HashResult(o).err, errName |-> HashResult(o).by,
              id |-> o, left |-> <<>>, value |-> HashResult(o).value]
  /\ UNCHANGED <<module, classes, fobjs, objs, heap>>

(* The scenario: a class with a: int and b: int = 0, under the default    *)
(* policy and under policies that ask for a hash, constructed with        *)
(* positional values; repr() and hash() of its instances.                  *)

ScenarioBody == <<Line("a", Bare("int")), Line("b", Plain("int", Int(0)))>>

ScenarioPolicies ==
  {dataclass, [dataclass EXCEPT !.hash = "True"], [dataclass EXCEPT !.frozen = TRUE],
   [dataclass EXCEPT !.eq = FALSE]}

DeclareScenario ==
  /\ Len(classes) < MaxClasses
  /\ Fits(ScenarioBody)
  /\ \E pol \in ScenarioPolicies : Declare(<<>>, ScenarioBody, {}, pol)

PositionalValues ==
  UNION {[1..n -> {Int(v) : v \in 0..MaxInt}] : n \in 0..3}

ConstructScenario ==
  /\ Len(objs) < MaxObjs
  /\ \E c \in 1..Len(classes) :
       \E values \in PositionalValues : ConstructPositional(c, values)

ReprScenario == \E o \in 1..Len(objs) : CallRepr(o)

HashScenario == \E o \in 1..Len(objs) : CallHash(o)

NextScenario == DeclareScenario \/ ConstructScenario \/ ReprScenario \/ HashScenario

SpecScenario == Init /\ [][NextScenario]_vars

\* The instances the scenario is about: made from one positional value by
\* a class declared under the default policy.
OneValueDefaultPolicy(o) ==
  /\ classes[objs[o].cls].pol = dataclass
  /\ objs[o].args["a"] # NotGiven
  /\ objs[o].args["b"] = NotGiven

\* C12 as stated: for a: int, b: int = 0 under the default policy, an
\* instance made from the one positional value v holds (v, 0), its repr is
\* the class name followed by (a=v, b=0), and its hash is the hash of the
\* tuple (v, 0).
C12_ConcreteScenario ==
  \A o \in 1..Len(objs) :
    OneValueDefaultPolicy(o) =>
      /\ ReadAttr(classes, objs[o], "a") = objs[o].args["a"]
      /\ ReadAttr(classes, objs[o], "b") = Int(0)
      /\ last.op = "repr" /\ last.id = o =>
           /\ last.value.sep = ", "
           /\ last.value.fields = <<[name |-> "a", value |-> objs[o].args["a"]],
                                    [name |-> "b", value |-> Int(0)]>>
      /\ last.op = "hash" /\ last.id = o =>
           /\ last.err = NoErr
           /\ last.value = TupleHash(<<objs[o].args["a"], Int(0)>>)

----------------------------------------------------------------------------
(* Pseudo-fields: InitVar and ClassVar annotations, and fields().          *)

ClassRef(c) == [kind |-> "class", o |-> c, items |-> <<>>]

\* The class whose attributes an operand finds: the class itself, the
\* class of an instance, 0 for a plain tuple.
ClassId(x) ==
  IF x.kind = "class" THEN x.o ELSE IF x.kind = "obj" THEN objs[x.o].cls ELSE 0

\* The class whose __dataclass_fields__ getattr(x, _MARKER) finds (0: an
\* AttributeError).
MarkerOwner(x) ==
  IF ClassId(x) = 0 THEN 0
  ELSE Definer(classes, classes[ClassId(x)].mro, 1, "__dataclass_fields__")

\* fields(class_or_instance): the entries of the marker that are _FIELD,
\* in order, as <<[key, id], ...>>.
fields(x) ==
  IF MarkerOwner(x) = 0 THEN [err |-> "TypeError", value |-> <<>>]
  ELSE [err |-> NoErr,
        value |-> SelectSeq(classes[MarkerOwner(x)].fields,
                            LAMBDA e : fobjs[e.id]._field_type = _FIELD)]

CallFields(x) ==
  /\ Running
  /\ module = "dataclasses"
  /\ last' = [op |-> "fields", err |-> fields(x).err, errName |-> x.kind,
              id |-> x.o, left |-> <<>>, value |-> fields(x).value]
  /\ UNCHANGED <<module, classes, fobjs, objs, heap>>

(* Programs with pseudo-fields: a class body has a line for a that is an  *)
(* int, an InitVar (bare, with a default, or out of the constructor       *)
(* through field(init=False)) or a ClassVar, a line b: int, or both, in   *)
(* either order; src/dataclass.py has no InitVar.  Every generated method *)
(* is asked for, a call gives a value to every parameter, and fields(),   *)
(* which changes nothing, is the last statement of a program.              *)

PseudoShapes ==
  {Bare("int"), Bare("InitVar"), Plain("InitVar", Int(0)),
   ViaField("InitVar", field(Int(0), "MISSING", FALSE, TRUE, "None", TRUE)),
   Plain("ClassVar", Int(0))}

PseudoBodies ==
  {b \in Bodies({"a", "b"}, PseudoShapes) :
     \A i \in 1..Len(b) : b[i].name = "b" => b[i].form = "bare" /\ b[i].type = "int"}

PseudoPolicy == [dataclass EXCEPT !.hash = "True"]

DeclarePseudo ==
  \E body \in PseudoBodies :
    /\ last.op # "fields"
    /\ Len(classes) < MaxClasses
    /\ Fits(body)
    /\ module = "dataclass" => \A i \in 1..Len(body) : body[i].type # "InitVar"
    /\ \E bases \in ChainBases : Declare(bases, body, {}, PseudoPolicy)

\* The names that are parameters of the __init__ generated for the class c.
ParamNames(c) ==
  {classes[c].init.fields[i].name :
     i \in {j \in 1..Len(classes[c].init.fields) : classes[c].init.fields[j].init}}

ConstructPseudo ==
  /\ last.op # "fields"
  /\ Len(objs) < MaxObjs
  /\ \E c \in 1..Len(classes) :
       Construct(c, [n \in FieldNames |->
                       IF n \in ParamNames(c) THEN Int(MaxInt) ELSE NotGiven])

FieldsPseudo ==
  /\ last.op # "fields"
  /\ \/ \E c \in 1..Len(classes) : CallFields(ClassRef(c))
     \/ \E o \in 1..Len(objs) : CallFields(Instance(o))

NextPseudo == DeclarePseudo \/ ConstructPseudo \/ FieldsPseudo

SpecPseudo == Init /\ [][NextPseudo]_vars

\* The Field objects of the table of the class c.
TableOf(c) == [i \in 1..Len(classes[c].fields) |-> fobjs[classes[c].fields[i].id]]

\* The name is kept out of everything but the table: the instances of the
\* class do not store it, fields() does not return it, and it is in none
\* of the tuples of the class's generated repr, comparisons and hash.
KeptOut(c, name) ==
  /\ \A o \in 1..Len(objs) : objs[o].cls = c => objs[o].dict[name] = Absent
  /\ \A i \in 1..Len(fields(ClassRef(c)).value) : fields(ClassRef(c)).value[i].key # name
  /\ (last.op = "fields" /\ ClassId([kind |-> last.errName, o |-> last.id, items |-> <<>>]) = c) =>
       \A i \in 1..Len(last.value) : last.value[i].key # name
  /\ \A i \in 1..Len(classes[c].repr) : classes[c].repr[i] # name
  /\ \A i \in 1..Len(classes[c].eq) : classes[c].eq[i] # name
  /\ \A i \in 1..Len(classes[c].order) : classes[c].order[i] # name
  /\ \A i \in 1..Len(classes[c].hash) : classes[c].hash[i] # name

----------------------------------------------------------------------------
(* Post-init hooks: classes with a: int = 0, frozen or not, alone or      *)
(* derived from the class before, that write no hook, the hook of the     *)
(* engine in use or a method with the name the other engine looks for.    *)

HookBody == <<Line("a", Plain("int", Int(0)))>>

HookNames == {_POST_INIT_NAME, dc_POST_INIT_NAME}

DeclareHooked ==
  /\ Len(classes) < MaxClasses
  /\ Fits(HookBody)
  /\ \E bases \in ChainBases :
       \E frozen \in BOOLEAN :
         \E methods \in {{}} \cup {{m} : m \in HookNames} :
           Declare(bases, HookBody, methods, [dataclass EXCEPT !.frozen = frozen])

ConstructHooked ==
  /\ Len(objs) < MaxObjs
  /\ \E c \in 1..Len(classes) :
       \E args \in ArgsOver({"a"}, {Int(n) : n \in 0..MaxInt}) : Construct(c, args)

NextHook == DeclareHooked \/ ConstructHooked

SpecHook == Init /\ [][NextHook]_vars

\* The class has the hook its engine calls, and is frozen.
HasHook(c) == getattr(classes, c, PostInitName) = UserFn

IsFrozenClass(c) == getattr(classes, c, "__setattr__") = _frozen_setattr

----------------------------------------------------------------------------
(* asdict() and the way back through the constructor.                      *)

\* A field value that is an instance of the program, objs[o].
ObjVal(o) == [tag |-> "obj", v |-> o]

\* _isdataclass(obj): not a class, and it finds __dataclass_fields__.
_isdataclass(x) == x.kind = "obj" /\ MarkerOwner(x) # 0

\* _asdict_inner: an instance becomes the mapping of its fields() names to
\* the converted values of its attributes, in order; an int is its own
\* deep copy.
RECURSIVE _asdict_inner(_)
_asdict_inner(v) ==
  IF v.tag = "obj"
    THEN [tag |-> "dict",
          v |-> [i \in 1..Len(fields(Instance(v.v)).value) |->
                   [name |-> fields(Instance(v.v)).value[i].key,
                    value |-> _asdict_inner(ReadAttr(classes, objs[v.v],
                                              fields(Instance(v.v)).value[i].key))]]]
  ELSE v

\* A conversion that keeps the field values as they are.
ShallowDict(x) ==
  [err |-> NoErr,
   value |-> [tag |-> "dict",
              v |-> [i \in 1..Len(fields(x).value) |->
                       [name |-> fields(x).value[i].key,
                        value |-> ReadAttr(classes, objs[x.o], fields(x).value[i].key)]]]]

\* getattr(obj, name) raises AttributeError for a field of the instance,
\* or of an instance in its fields, that was never stored and has no
\* class attribute.
RECURSIVE Unreadable(_)
Unreadable(v) ==
  /\ v.tag = "obj"
  /\ \E i \in 1..Len(fields(Instance(v.v)).value) :
       \/ ReadAttr(classes, objs[v.v], fields(Instance(v.v)).value[i].key) = Absent
       \/ Unreadable(ReadAttr(classes, objs[v.v], fields(Instance(v.v)).value[i].key))

asdict(x) ==
  IF ~_isdataclass(x) THEN [err |-> "TypeError", value |-> PyNone]
  ELSE IF Unreadable(ObjVal(x.o)) THEN [err |-> "AttributeError", value |-> PyNone]
  ELSE [err |-> NoErr, value |-> _asdict_inner(ObjVal(x.o))]

\* list(d.values()) of a mapping asdict returned.
ValuesOf(d) == [i \in 1..Len(d.v) |-> d.v[i].value]

\* type(objs[o])(*asdict(objs[o]).values())
Rebuild(o) ==
  /\ Running
  /\ module = "dataclasses"
  /\ o \in 1..Len(objs)
  /\ getattr(classes, objs[o].cls, "__init__") = Generated
  /\ IF Len(ValuesOf(asdict(Instance(o)).value)) > Len(InitParams(objs[o].cls))
       THEN /\ last' = [op |-> "rebuild", err |-> "TypeError", errName |-> "None",
                        id |-> 0, left |-> <<>>, src |-> o]
            /\ UNCHANGED <<objs, heap>>
     ELSE LET args == Positional(InitParams(objs[o].cls), ValuesOf(asdict(Instance(o)).value))
              r == Call(classes, objs[o].cls, heap, args)
          IN /\ heap' = r.heap
             /\ objs' = IF r.err # NoErr THEN objs
                        ELSE Append(objs, [cls |-> objs[o].cls, dict |-> r.dict,
                                           args |-> [a |-> args["a"], b |-> args["b"],
                                                     c |-> args["c"]]])
             /\ last' = [op |-> "rebuild", err |-> r.err, errName |-> "None",
                         id |-> IF r.err # NoErr THEN 0 ELSE Len(objs) + 1,
                         left |-> <<>>, src |-> o]
  /\ UNCHANGED <<module, classes, fobjs>>

(* Programs that rebuild: classes over a and b whose lines are a plain    *)
(* field, a field out of the constructor or an InitVar, with and without  *)
(* eq; instances that hold an int or the instance made before them; one   *)
(* rebuilding, as the last statement.                                      *)

RebuildShapes ==
  {Bare("int"), Bare("InitVar"),
   ViaField("int", field(Int(0), "MISSING", FALSE, TRUE, "None", TRUE))}

RebuildBodies ==
  {b \in Bodies({"a", "b"}, RebuildShapes) :
     /\ b # <<>>
     /\ \A i \in 1..Len(b) : b[i].name = "b" => b[i].form = "field" \/ b[i].type = "InitVar"}

DeclareRebuilt ==
  \E body \in RebuildBodies :
    /\ last.op # "rebuild"
    /\ module = "dataclasses"
    /\ Len(classes) < MaxClasses
    /\ Fits(body)
    /\ \E eq \in BOOLEAN : Declare(<<>>, body, {}, [dataclass EXCEPT !.eq = eq])

ConstructRebuilt ==
  /\ last.op # "rebuild"
  /\ Len(objs) < MaxObjs
  /\ \E c \in 1..Len(classes) :
       \E v \in {Int(MaxInt)} \cup {ObjVal(q) : q \in {Len(objs)} \ {0}} :
         Construct(c, [n \in FieldNames |->
                         IF n \in ParamNames(c) THEN v ELSE NotGiven])

RebuildOne ==
  /\ last.op # "rebuild"
  /\ \E o \in 1..Len(objs) : Rebuild(o)

NextRebuild == DeclareRebuilt \/ ConstructRebuilt \/ RebuildOne

SpecRebuild == Init /\ [][NextRebuild]_vars

\* The rebuilding made an instance that is equal to the one it started
\* from.
RebuiltEqual ==
  /\ last.err = NoErr
  /\ RichCompare(Instance(last.id), "__eq__", Instance(last.src)) = "True"

FlatAndComparable(o) ==
  /\ getattr(classes, objs[o].cls, "__eq__") = Generated
  /\ \A i \in 1..Len(TableOf(objs[o].cls)) :
       /\ TableOf(objs[o].cls)[i]._field_type = _FIELD
       /\ TableOf(objs[o].cls)[i].init
       /\ ReadAttr(classes, objs[o], TableOf(objs[o].cls)[i].name).tag # "obj"

----------------------------------------------------------------------------
(* replace().                                                              *)

\* The loop of replace over the values of the instance's
\* __dataclass_fields__, pseudo-fields included: a name out of the
\* constructor must not be in changes, and a name that is missing from
\* changes gets getattr(obj, name).
RECURSIVE ReplaceLoop(_, _, _, _)
ReplaceLoop(tbl, i, o, changes) ==
  IF i > Len(tbl) THEN [err |-> NoErr, changes |-> changes]
  ELSE IF ~tbl[i].init
    THEN IF changes[tbl[i].name] # NotGiven
           THEN [err |-> "ValueError", changes |-> changes]
         ELSE ReplaceLoop(tbl, i + 1, o, changes)
  ELSE IF changes[tbl[i].name] # NotGiven THEN ReplaceLoop(tbl, i + 1, o, changes)
  ELSE IF ReadAttr(classes, o, tbl[i].name) = Absent
    THEN [err |-> "AttributeError", changes |-> changes]
  ELSE ReplaceLoop(tbl, i + 1, o,
                   [changes EXCEPT ![tbl[i].name] = ReadAttr(classes, o, tbl[i].name)])

\* replace(obj, **changes), obj an instance of a dataclass:
\* obj.__class__(**changes) with the changes the loop completed.
replace(o, changes) ==
  IF ReplaceLoop(TableOf(MarkerOwner(Instance(o))), 1, objs[o], changes).err # NoErr
    THEN [dict |-> NoAttrs, heap |-> heap,
          err |-> ReplaceLoop(TableOf(MarkerOwner(Instance(o))), 1, objs[o], changes).err]
  ELSE Call(classes, objs[o].cls, heap,
            ReplaceLoop(TableOf(MarkerOwner(Instance(o))), 1, objs[o], changes).changes)

CallReplace(o, changes) ==
  /\ Running
  /\ module = "dataclasses"
  /\ o \in 1..Len(objs)
  /\ _isdataclass(Instance(o))
  /\ heap' = replace(o, changes).heap
  /\ objs' = IF replace(o, changes).err # NoErr THEN objs
             ELSE Append(objs, [cls |-> objs[o].cls, dict |-> replace(o, changes).dict,
                                args |-> [a |-> changes["a"], b |-> changes["b"],
                                          c |-> changes["c"]]])
  /\ last' = [op |-> "replace", err |-> replace(o, changes).err, errName |-> "None",
              id |-> IF replace(o, changes).err # NoErr THEN 0 ELSE Len(objs) + 1,
              left |-> <<>>, src |-> o, changes |-> changes, before |-> objs]
  /\ UNCHANGED <<module, classes, fobjs>>

(* Programs that replace: classes over a and b whose lines are a plain    *)
(* field, a field out of the constructor, an InitVar with or without a    *)
(* default, or a ClassVar; instances made from ints; one replace, with    *)
(* any of the declared names in changes, as the last statement.            *)

ReplaceShapes ==
  {Bare("int"), Bare("InitVar"), Plain("InitVar", Int(0)), Plain("ClassVar", Int(0)),
   ViaField("int", field(Int(0), "MISSING", FALSE, TRUE, "None", TRUE))}

ReplaceBodies ==
  {b \in Bodies({"a", "b"}, ReplaceShapes) :
     /\ b # <<>>
     /\ \A i \in 1..Len(b) : b[i].name = "a" => b[i].form = "bare" /\ b[i].type = "int"}

DeclareReplaced ==
  \E body \in ReplaceBodies :
    /\ last.op # "replace"
    /\ module = "dataclasses"
    /\ Len(classes) < MaxClasses
    /\ Fits(body)
    /\ Declare(<<>>, body, {}, dataclass)

ConstructReplaced ==
  /\ last.op # "replace"
  /\ Len(objs) < MaxObjs
  /\ \E c \in 1..Len(classes) :
       Construct(c, [n \in FieldNames |->
                       IF n \in ParamNames(c) THEN Int(0) ELSE NotGiven])

ReplaceOne ==
  /\ last.op # "replace"
  /\ \E o \in 1..Len(objs) :
       \E given \in SUBSET {TableOf(objs[o].cls)[i].name :
                               i \in 1..Len(TableOf(objs[o].cls))} :
         CallReplace(o, [n \in FieldNames |->
                           IF n \in given THEN Int(MaxInt) ELSE NotGiven])

NextReplace == DeclareReplaced \/ ConstructReplaced \/ ReplaceOne

SpecReplace == Init /\ [][NextReplace]_vars

\* The fields of the instance o that are parameters of its constructor,
\* and those that are not.
InitFieldNames(o) ==
  {fobjs[fields(Instance(o)).value[i].id].name :
     i \in {j \in 1..Len(fields(Instance(o)).value) :
              fobjs[fields(Instance(o)).value[j].id].init}}

NonInitFieldNames(o) ==
  {fobjs[fields(Instance(o)).value[i].id].name :
     i \in {j \in 1..Len(fields(Instance(o)).value) :
              ~fobjs[fields(Instance(o)).value[j].id].init}}

\* replace returned a new instance of the class of the one it was given,
\* with the changes in the init fields and the old values elsewhere.
ReplacedAsAsked ==
  /\ last.err = NoErr
  /\ last.id = Len(last.before) + 1
  /\ objs[last.id].cls = objs[last.src].cls
  /\ \A n \in InitFieldNames(last.src) :
       ReadAttr(classes, objs[last.id], n) =
         IF last.changes[n] # NotGiven THEN last.changes[n]
         ELSE ReadAttr(classes, objs[last.src], n)

\* C16: replace gives a new instance of the same class with each init
\* field as changes says or as obj has it, and leaves obj as it was;
\* with a field that is out of the constructor named in changes it
\* fails and creates nothing.
C16_Replace ==
  last.op = "replace" =>
    /\ \A q \in 1..Len(last.before) : objs[q] = last.before[q]
    /\ IF \E n \in NonInitFieldNames(last.src) : last.changes[n] # NotGiven
         THEN last.err # NoErr /\ objs = last.before
       ELSE ReplacedAsAsked

----------------------------------------------------------------------------
(* __slots__: add_slots of src/dataclass_tools.py and slots=True of       *)
(* src/dataclass.py.                                                       *)

\* The __name__ of the class cs[c], as the class whose statement gave it.
NameOf(cs, c) == IF HasSlots(cs[c]) THEN cs[c].name ELSE c

\* cls_dict.pop(name, None) for each of the names.
RECURSIVE PopNames(_, _, _)
PopNames(d, names, i) ==
  IF i > Len(names) THEN d
  ELSE PopNames([d EXCEPT ![names[i]] = Absent], names, i + 1)

\* type(cls)(cls.__name__, cls.__bases__, cls_dict): the class object id,
\* made from a copy of cls's __dict__ without the names, and with
\* __slots__ = names.  The copy keeps the generated functions and the
\* table, which holds the same Field objects.
Slotted(cls, id, name, names) ==
  [mro |-> <<id>> \o Tail(cls.mro),
   ann |-> cls.ann, dict |-> PopNames(cls.dict, names, 1), fields |-> cls.fields,
   init |-> cls.init, repr |-> cls.repr, hash |-> cls.hash, eq |-> cls.eq,
   order |-> cls.order, pol |-> cls.pol, ns |-> cls.ns,
   slots |-> names, name |-> name]

\* tuple(fields(cls)): the keys of the mapping fields() returns.
FieldKeys(x) == [i \in 1..Len(fields(x).value) |-> fields(x).value[i].key]

\* A transformer that gives the new class an empty __slots__.
EmptySlots(cs, c) ==
  IF HasSlots(cs[c]) THEN [err |-> "TypeError", cls |-> cs[c]]
  ELSE [err |-> NoErr,
        cls |-> Slotted(cs[c], Len(cs) + 1, NameOf(cs, c), <<>>)]

\* add_slots(cls) of src/dataclass_tools.py.
add_slots(cs, c) ==
  IF HasSlots(cs[c]) THEN [err |-> "TypeError", cls |-> cs[c]]
  ELSE [err |-> NoErr,
        cls |-> Slotted(cs[c], Len(cs) + 1, NameOf(cs, c), FieldKeys(ClassRef(c)))]

\* X = add_slots(classes[c])
CallAddSlots(c) ==
  /\ Running
  /\ module = "dataclasses"
  /\ c \in 1..Len(classes)
  /\ classes' = IF add_slots(classes, c).err # NoErr THEN classes
                ELSE Append(classes, add_slots(classes, c).cls)
  /\ last' = [op |-> "add_slots", err |-> add_slots(classes, c).err, errName |-> "None",
              id |-> IF add_slots(classes, c).err # NoErr THEN 0 ELSE Len(classes) + 1,
              left |-> <<>>, src |-> c, before |-> classes]
  /\ UNCHANGED <<module, fobjs, objs, heap>>

\* The slots step of _process_class in src/dataclass.py, on a class whose
\* body has __slots__ (user_slots) or not: the decorator returns the new
\* class in place of the one it worked on.
dc_slots(s, user_slots) ==
  IF s.err # NoErr THEN s
  ELSE IF user_slots THEN [s EXCEPT !.err = "AttributeError", !.errName = "__slots__"]
  ELSE [s EXCEPT !.cls = Slotted(s.cls, s.cls.mro[1], s.cls.mro[1],
                                 [i \in 1..Len(s.cls.fields) |-> s.cls.fields[i].key])]

\* A class statement under @dataclass(slots=True) of src/dataclass.py.
DeclareWithSlots(bases, body, pol, user_slots) ==
  /\ Running
  /\ module = "dataclass"
  /\ Bind(dc_slots(Decorate(classes, fobjs, bases, body, {}, pol, module), user_slots))
  /\ UNCHANGED <<module, objs, heap>>

(* Programs with slots: classes over a and b, alone or derived from the   *)
(* class before, with and without defaults; under src/dataclasses.py any  *)
(* class is given to add_slots, its result too; under src/dataclass.py a  *)
(* class is declared with or without slots=True, and with __slots__ in    *)
(* its body when it has no defaults.  Instances are made from ints, and   *)
(* the last statement sets an attribute of one.                            *)

SlotBodies == {b \in Bodies({"a", "b"}, {Bare("int"), Plain("int", Int(0))}) : b # <<>>}

NotSet == last.op # "setattr"

DeclareSlots ==
  \E body \in SlotBodies :
    /\ NotSet
    /\ Len(classes) < MaxClasses
    /\ Fits(body)
    /\ \E bases \in ChainBases :
         \/ Declare(bases, body, {}, dataclass)
         \/ \E user_slots \in BOOLEAN :
              /\ user_slots => \A i \in 1..Len(body) : body[i].form = "bare"
              /\ DeclareWithSlots(bases, body, dataclass, user_slots)

AddSlots ==
  /\ NotSet
  /\ Len(classes) <= MaxClasses
  /\ \E c \in 1..Len(classes) : CallAddSlots(c)

ConstructSlots ==
  /\ NotSet
  /\ Len(objs) < MaxObjs
  /\ \E c \in 1..Len(classes) :
       Construct(c, [n \in FieldNames |->
                       IF n \in {InitParams(c)[i].name : i \in 1..Len(InitParams(c))}
                         THEN Int(0) ELSE NotGiven])

SetSlots ==
  /\ NotSet
  /\ \E o \in 1..Len(objs) : \E name \in FieldNames : SetAttr(o, name, Int(MaxInt))

NextSlots == DeclareSlots \/ AddSlots \/ ConstructSlots \/ SetSlots

SpecSlots == Init /\ [][NextSlots]_vars

\* What add_slots did: it refused a class with __slots__, and otherwise
\* made a new class object with the name and the bases of the one it was
\* given, with the names of fields() as __slots__, and changed no class.
TransformerResult ==
  last.op = "add_slots" =>
    IF HasSlots(last.before[last.src])
      THEN last.err # NoErr /\ classes = last.before
    ELSE /\ last.err = NoErr
         /\ last.id = Len(last.before) + 1
         /\ SubSeq(classes, 1, Len(last.before)) = last.before
         /\ NameOf(classes, last.id) = NameOf(classes, last.src)
         /\ Tail(classes[last.id].mro) = Tail(classes[last.src].mro)
         /\ classes[last.id].slots = FieldKeys(ClassRef(last.src))

\* The names of the fields of the class c, in order: what fields() gives
\* in src/dataclasses.py, the whole table in src/dataclass.py, which
\* enters no ClassVar.
RecordFieldNames(c) ==
  IF module = "dataclass"
    THEN [i \in 1..Len(classes[c].fields) |-> classes[c].fields[i].key]
  ELSE FieldKeys(ClassRef(c))

\* Every class with __slots__ has the names of its fields as __slots__.
SlotsAreFields ==
  \A c \in 1..Len(classes) :
    HasSlots(classes[c]) => classes[c].slots = RecordFieldNames(c)

\* The statement set an attribute that is no field on an instance of a
\* class with __slots__.
SetOutside ==
  /\ last.op = "setattr"
  /\ HasSlots(classes[objs[last.id].cls])
  /\ last.errName \notin Range(classes[objs[last.id].cls].slots)

----------------------------------------------------------------------------
(* What a failed decorator leaves on the class.                            *)

(* Programs whose class statements can fail in each way: bodies over a    *)
(* and b with bare, defaulted, field() and list-literal lines (field      *)
(* order, mutable default), a __repr__ or __eq__ of the user's            *)
(* (attribute conflict), and order=True with eq=False.                     *)

FailureBodies ==
  {b \in Bodies({"a", "b"},
                {Bare("int"), Plain("int", Int(0)), Plain("list", Literal("list")),
                 ViaField("int", field(Int(0), "MISSING", TRUE, TRUE, "None", TRUE))}) :
     b # <<>>}

FailurePolicies == {dataclass, [dataclass EXCEPT !.eq = FALSE, !.order = TRUE]}

DeclareFailing ==
  \E body \in FailureBodies :
    /\ Len(classes) < MaxClasses
    /\ Fits(body)
    /\ \E bases \in ChainBases :
         \E pol \in FailurePolicies :
           \E methods \in {{}, {"__repr__"}, {"__eq__"}} :
             Declare(bases, body, methods, pol)

NextFailure == DeclareFailing

SpecFailure == Init /\ [][NextFailure]_vars

\* The class of the statement that failed, as the decorator left it; ns
\* is its __dict__ as the class statement made it.
FailedClass == last.left[1].cls

NoTableAttached ==
  FailedClass.dict["__dataclass_fields__"] = Absent /\ FailedClass.fields = <<>>

NoAttributeChanged == \A n \in FieldNames : FailedClass.dict[n] = FailedClass.ns[n]

NoMethodInstalled == \A m \in Methods : FailedClass.dict[m] = FailedClass.ns[m]

\* C18: a class statement whose decorator raised leaves the class as the
\* class statement made it: no table, no class attribute replaced or
\* removed, no generated method.
C18_FailureLeavesClass ==
  last.op = "declare" /\ last.err # NoErr =>
    NoTableAttached /\ NoAttributeChanged /\ NoMethodInstalled

----------------------------------------------------------------------------
(* A Field object used for more than one declaration.                      *)

\* x = field(default=0), a statement outside any class body.
MakeField ==
  /\ Running
  /\ Len(fobjs) < MaxOwn
  /\ fobjs' = Append(fobjs, field(Int(0), "MISSING", TRUE, TRUE, "None", TRUE))
  /\ last' = [op |-> "field", err |-> NoErr, errName |-> "None",
              id |-> Len(fobjs) + 1, left |-> <<>>]
  /\ UNCHANGED <<module, classes, objs, heap>>

\* name: type = x, x the Field object fobjs[ref].
Reused(type, ref) == [type |-> type, form |-> "reuse", value |-> Absent, f |-> NoField, ref |-> ref]

(* Programs that use a Field object again: Field objects made by field()  *)
(* outside a class body or taken from an earlier class's table, and class *)
(* bodies over a and b whose lines give such an object, or a field() call *)
(* of their own, as the default.                                           *)

DeclareReusing ==
  \E body \in Bodies({"a", "b"},
                     {Reused("int", k) : k \in 1..Len(fobjs)}
                       \cup {ViaField("int", field(Int(0), "MISSING", TRUE, TRUE, "None", TRUE))}) :
    /\ Len(classes) < MaxClasses
    /\ Fits(body)
    /\ body # <<>>
    /\ Declare(<<>>, body, {}, dataclass)

NextReuse == MakeField \/ DeclareReusing

SpecReuse == Init /\ [][NextReuse]_vars

\* The places, a class of the program and a name of its body, where the
\* class statement had the Field object k as the value.
PlacesOf(k) ==
  {p \in (1..Len(classes)) \X {"a", "b"} : classes[p[1]].ns[p[2]] = FieldRef(k)}

\* Every Field object in a table has the name of its key.
NoFieldRenamed ==
  \A c \in 1..Len(classes) :
    \A i \in 1..Len(classes[c].fields) :
      fobjs[classes[c].fields[i].id].name = classes[c].fields[i].key

\* C19: a class statement that gives a Field object with a name or a type
\* as a default is refused with the name-or-type error, so that no Field
\* object is the default of two accepted declarations and none in a
\* table has another name than its key.
C19_UsedFieldRejected ==
  /\ \A k \in 1..Len(fobjs) : Cardinality(PlacesOf(k)) <= 1
  /\ NoFieldRenamed
  /\ last.op = "declare" /\ last.err # NoErr =>
       /\ last.err = "NameOrType"
       /\ fobjs[FailedClass.ns[last.errName].v].name # "None"

----------------------------------------------------------------------------
(* asdict(), astuple() and fields() on what is and is not an instance.     *)

\* _astuple_inner: an instance becomes the tuple of the converted values
\* of its fields() names; an int is its own deep copy.
RECURSIVE _astuple_inner(_)
_astuple_inner(v) ==
  IF v.tag = "obj"
    THEN [tag |-> "tuple",
          v |-> [i \in 1..Len(fields(Instance(v.v)).value) |->
                   _astuple_inner(ReadAttr(classes, objs[v.v],
                                           fields(Instance(v.v)).value[i].key))]]
  ELSE v

astuple(x) ==
  IF ~_isdataclass(x) THEN [err |-> "TypeError", value |-> PyNone]
  ELSE IF Unreadable(ObjVal(x.o)) THEN [err |-> "AttributeError", value |-> PyNone]
  ELSE [err |-> NoErr, value |-> _astuple_inner(ObjVal(x.o))]

CallAsdict(x) ==
  /\ Running
  /\ module = "dataclasses"
  /\ last' = [op |-> "asdict", err |-> asdict(x).err, errName |-> x.kind,
              id |-> x.o, left |-> <<>>, value |-> asdict(x).value]
  /\ UNCHANGED <<module, classes, fobjs, objs, heap>>

CallAstuple(x) ==
  /\ Running
  /\ module = "dataclasses"
  /\ last' = [op |-> "astuple", err |-> astuple(x).err, errName |-> x.kind,
              id |-> x.o, left |-> <<>>, value |-> astuple(x).value]
  /\ UNCHANGED <<module, classes, fobjs, objs, heap>>

(* Programs that call the helpers: classes over a and b whose lines are a *)
(* plain field or a field out of the constructor, with or without a       *)
(* default; instances that hold an int or the instance made before them;  *)
(* and, as the last statement, one of the helpers on a class, an          *)
(* instance or a plain tuple.                                              *)

HelperShapes ==
  {Bare("int"),
   ViaField("int", field(Int(0), "MISSING", FALSE, TRUE, "None", TRUE)),
   ViaField("int", field(_MISSING, "MISSING", FALSE, TRUE, "None", TRUE))}

NoHelperYet == last.op \notin {"asdict", "astuple", "fields"}

DeclareHelped ==
  \E body \in Bodies({"a", "b"}, HelperShapes) :
    /\ NoHelperYet
    /\ module = "dataclasses"
    /\ Len(classes) < MaxClasses
    /\ Fits(body)
    /\ Declare(<<>>, body, {}, dataclass)

ConstructHelped ==
  /\ NoHelperYet
  /\ Len(objs) < MaxObjs
  /\ \E c \in 1..Len(classes) :
       \E v \in {Int(MaxInt)} \cup {ObjVal(q) : q \in {Len(objs)} \ {0}} :
         Construct(c, [n \in FieldNames |->
                         IF n \in ParamNames(c) THEN v ELSE NotGiven])

HelperOperands ==
  {ClassRef(c) : c \in 1..Len(classes)} \cup {Instance(o) : o \in 1..Len(objs)}
    \cup {PlainTuple(<<>>), PlainTuple(<<Int(0)>>)}

CallHelper ==
  /\ NoHelperYet
  /\ \E x \in HelperOperands : CallAsdict(x) \/ CallAstuple(x) \/ CallFields(x)

NextHelpers == DeclareHelped \/ ConstructHelped \/ CallHelper

SpecHelpers == Init /\ [][NextHelpers]_vars

\* C20: asdict and astuple raise for a class and for a value that is no
\* instance of a dataclass, fields raises for a value that is neither a
\* dataclass nor an instance of one, and each of the three returns when
\* it is given an instance of a dataclass.
C20_HelperArguments ==
  /\ last.op \in {"asdict", "astuple"} => (last.err = NoErr <=> last.errName = "obj")
  /\ last.op = "fields" => (last.err = NoErr <=> last.errName \in {"obj", "class"})

----------------------------------------------------------------------------
(* The eq and order options together.                                      *)

(* Programs of src/dataclasses.py whose class statements take each        *)
(* combination of eq and order, alone or derived from the class before;   *)
(* the bodies have no defaults, so that no other check can fail.           *)

EqOrderPolicies ==
  {[dataclass EXCEPT !.eq = eq, !.order = order] : eq \in BOOLEAN, order \in BOOLEAN}

DeclareEqOrder ==
  \E body \in Bodies({"a", "b"}, {Bare("int")}) :
    /\ module = "dataclasses"
    /\ Len(classes) < MaxClasses
    /\ Fits(body)
    /\ \E bases \in ChainBases :
         \E pol \in EqOrderPolicies : Declare(bases, body, {}, pol)

ConstructEqOrder ==
  /\ Len(objs) < MaxObjs
  /\ \E c \in 1..Len(classes) :
       Construct(c, [n \in FieldNames |->
                       IF n \in {InitParams(c)[i].name : i \in 1..Len(InitParams(c))}
                         THEN Int(0) ELSE NotGiven])

NextEqOrder == DeclareEqOrder \/ ConstructEqOrder

SpecEqOrder == Init /\ [][NextEqOrder]_vars

EqMethods == {"__eq__", "__ne__"}
OrderMethods == {"__lt__", "__le__", "__gt__", "__ge__"}

\* The names among ms that the class's own __dict__ holds.
OwnMethods(cls, ms) == {m \in ms : cls.dict[m] # Absent}

\* C21: a class declared with order on has the six comparison methods in
\* its own __dict__, whatever eq says; with order off and eq on it has
\* __eq__ and __ne__ only; with both off it has none of the six.
C21_OrderForcesEq ==
  last.op = "declare" =>
    /\ last.err = NoErr
    /\ LET cls == classes[last.id]
       IN OwnMethods(cls, EqMethods \cup OrderMethods) =
            IF cls.pol.order THEN EqMethods \cup OrderMethods
            ELSE IF cls.pol.eq THEN EqMethods ELSE {}

----------------------------------------------------------------------------
(* __hash__ of a class that is frozen through a base.                      *)

(* Programs where frozen is inherited: a class, frozen or not, and        *)
(* classes derived from the class before that ask for frozen or do not,   *)
(* with eq on or off and the hash option unset; instances are hashed.      *)

FrozenHashPolicies ==
  {[dataclass EXCEPT !.eq = eq, !.frozen = frozen] : eq \in BOOLEAN, frozen \in BOOLEAN}

DeclareFrozenHash ==
  \E body \in Bodies({"a", "b"}, {Bare("int")}) :
    /\ Len(classes) < MaxClasses
    /\ Fits(body)
    /\ \E bases \in ChainBases :
         \E pol \in FrozenHashPolicies : Declare(bases, body, {}, pol)

ConstructFrozenHash ==
  /\ last.op # "hash"
  /\ Len(objs) < MaxObjs
  /\ \E c \in 1..Len(classes) :
       Construct(c, [n \in FieldNames |->
                       IF n \in {InitParams(c)[i].name : i \in 1..Len(InitParams(c))}
                         THEN Int(0) ELSE NotGiven])

HashFrozen == last.op # "hash" /\ \E o \in 1..Len(objs) : CallHash(o)

NextFrozenHash == DeclareFrozenHash \/ ConstructFrozenHash \/ HashFrozen

SpecFrozenHash == Init /\ [][NextFrozenHash]_vars

\* The class refuses writes to its instances: by its own option or by a
\* base's.
FrozenClass(c) == getattr(classes, c, "__setattr__") = _frozen_setattr

\* C22: a class with eq on and the hash option unset that is frozen, by
\* its own option or only through a base, has a generated __hash__ of
\* its own.
C22_InheritedFrozenHash ==
  \A c \in 1..Len(classes) :
    classes[c].pol.eq /\ classes[c].pol.hash = "None" /\ FrozenClass(c) =>
      classes[c].dict["__hash__"] = Generated

----------------------------------------------------------------------------
(* The order of the constructor's parameters in every attached table.      *)

(* Programs that declare under several policies: bodies over a and b with *)
(* bare and defaulted fields and InitVars (src/dataclasses.py only) and a *)
(* field with a factory, with init, repr and eq each on or off, alone or  *)
(* derived from the class before.                                          *)

TableShapes ==
  {Bare("int"), Plain("int", Int(0)), Bare("InitVar"), Plain("InitVar", Int(0)),
   ViaField("list", field(_MISSING, "list", TRUE, TRUE, "None", TRUE))}

TablePolicies ==
  {dataclass, [dataclass EXCEPT !.init = FALSE], [dataclass EXCEPT !.repr = FALSE],
   [dataclass EXCEPT !.eq = FALSE], [dataclass EXCEPT !.init = FALSE, !.eq = FALSE]}

DeclareTable ==
  \E body \in Bodies({"a", "b"}, TableShapes) :
    /\ Len(classes) < MaxClasses
    /\ Fits(body)
    /\ module = "dataclass" => \A i \in 1..Len(body) : body[i].type # "InitVar"
    /\ \E bases \in ChainBases :
         \E pol \in TablePolicies : Declare(bases, body, {}, pol)

NextTable == DeclareTable

SpecTable == Init /\ [][NextTable]_vars

\* The fields and InitVars of the table of the class c that are
\* parameters of a constructor, in table order.
InitEntries(c) ==
  SelectSeq(TableOf(c), LAMBDA f : f.init /\ f._field_type # _FIELD_CLASSVAR)

Defaulted(f) == HasDefault(f) \/ HasFactory(f)

\* No entry without default and factory follows one that has either.
TableOrdered(c) ==
  \A j \in 1..Len(InitEntries(c)) :
    \A i \in 1..(j - 1) : Defaulted(InitEntries(c)[i]) => Defaulted(InitEntries(c)[j])

----------------------------------------------------------------------------
(* Several bases.                                                          *)

(* Programs with hierarchies: up to MaxLattice classes, each with an      *)
(* empty body or with a: int = k, k the number of the class, and with no  *)
(* base, one base or two bases in either order, taken among the classes   *)
(* before it when Python can linearize them.  Instances are made without  *)
(* arguments.                                                              *)

LatticeBases ==
  {<<>>} \cup {<<b>> : b \in 1..Len(classes)}
    \cup {<<p[1], p[2]>> : p \in {q \in (1..Len(classes)) \X (1..Len(classes)) :
                                   q[1] # q[2]}}

DeclareLattice ==
  /\ Len(classes) < MaxLattice
  /\ \E bases \in LatticeBases :
       /\ 0 \notin Range(Linearize(classes, bases))
       /\ \E body \in {<<>>, <<Line("a", Plain("int", Int(Len(classes) + 1)))>>} :
            Declare(bases, body, {}, dataclass)

ConstructLattice ==
  /\ Len(classes) = MaxLattice
  /\ Len(objs) < MaxObjs
  /\ \E c \in 1..Len(classes) : Construct(c, [n \in FieldNames |-> NotGiven])

NextLattice == DeclareLattice \/ ConstructLattice

SpecLattice == Init /\ [][NextLattice]_vars

\* The classes of the __mro__ of c whose body declares the name.
Declaring(c, name) ==
  SelectSeq(classes[c].mro,
            LAMBDA k : \E i \in 1..Len(classes[k].ann) : classes[k].ann[i].name = name)

\* The entry for the name in the table of the class k.
EntryOf(k, name) ==
  classes[k].fields[CHOOSE i \in 1..Len(classes[k].fields) :
                      classes[k].fields[i].key = name]

\* C24: every entry of a class's table is the Field object of the first
\* class of its __mro__ that declares the name, so the default __init__
\* uses is the class attribute that getattr finds on the class, and an
\* instance made without arguments holds it.
C24_TableFollowsMro ==
  /\ \A c \in 1..Len(classes) :
       \A i \in 1..Len(classes[c].fields) :
         /\ classes[c].fields[i].id =
              EntryOf(Head(Declaring(c, classes[c].fields[i].key)),
                      classes[c].fields[i].key).id
         /\ fobjs[classes[c].fields[i].id].default =
              getattr(classes, c, classes[c].fields[i].key)
  /\ \A o \in 1..Len(objs) :
       objs[o].dict["a"] # Absent =>
         objs[o].dict["a"] = getattr(classes, objs[o].cls, "a")

----------------------------------------------------------------------------
(* The stores of the generated __init__, in the order it performs them.    *)

StoreShapes ==
  {Bare("int"), Plain("int", Int(0)), Factory(TRUE), Factory(FALSE),
   ViaField("int", field(Int(0), "MISSING", FALSE, TRUE, "None", TRUE)),
   Bare("InitVar")}

DeclareStoring ==
  \E body \in Bodies({"a", "b"}, StoreShapes) :
    /\ Len(classes) < MaxClasses
    /\ Fits(body)
    /\ module = "dataclass" => \A i \in 1..Len(body) : body[i].type # "InitVar"
    /\ \E bases \in ChainBases :
         \E methods \in {{}, {PostInitName}} : Declare(bases, body, methods, dataclass)

\* The names the lines assign to, in the order of the lines.
Stored(lines) == [i \in 1..Len(lines) |-> lines[i].name]

\* classes[c](**args) under a __setattr__ that notes each store, as in
\* test_init_in_order: stores is the sequence of the names stored, hook
\* whether the body ends with the post-init call, hookArgs the values the
\* call passes.
ConstructStoring ==
  /\ Running
  /\ Len(objs) < MaxObjs
  /\ \E c \in 1..Len(classes) :
       \E v \in {Int(MaxInt), NotGiven} :
         LET args == [n \in FieldNames |-> IF n \in ParamNames(c) THEN v ELSE NotGiven]
             fn == classes[Definer(classes, classes[c].mro, 1, "__init__")].init
             r == Call(classes, c, heap, args)
             names == params_str(fn.fields)
         IN /\ getattr(classes, c, "__init__") = Generated
            /\ heap' = r.heap
            /\ objs' = IF r.err = NoErr
                         THEN Append(objs, [cls |-> c, dict |-> r.dict, args |-> args])
                       ELSE objs
            /\ last' = [op |-> "construct", err |-> r.err, errName |-> "None",
                        id |-> IF r.err = NoErr THEN Len(objs) + 1 ELSE c, left |-> <<>>,
                        stores |-> IF r.err = NoErr THEN Stored(InitLines(fn)) ELSE <<>>,
                        hook |-> fn.has_post_init,
                        hookArgs |-> [i \in 1..Len(names) |-> args[names[i]]]]
  /\ UNCHANGED <<module, classes, fobjs>>

NextStores == DeclareStoring \/ ConstructStoring

SpecStores == Init /\ [][NextStores]_vars

\* The entries of the table of c that __init__ is to store: the ordinary
\* fields (in src/dataclass.py every entry is one) that are parameters or
\* have a default_factory.
StoredEntries(c) ==
  SelectSeq(TableOf(c),
            LAMBDA f : /\ f._field_type \notin {_FIELD_CLASSVAR, _FIELD_INITVAR}
                       /\ (f.init \/ HasFactory(f)))

InitVarEntries(c) == SelectSeq(TableOf(c), LAMBDA f : f._field_type = _FIELD_INITVAR)

\* C25: a construction stores exactly the init-participating ordinary
\* fields and the init-excluded fields with a default_factory, in the
\* order of the table; an init-excluded field with a plain default is not
\* stored; the post-init hook is called, last, when the class has one, with
\* the values given for the InitVars in the order of the table.
C25_StoresInTableOrder ==
  (last.op = "construct" /\ last.err = NoErr) =>
    LET c == objs[last.id].cls
        vars_ == FieldNamesOf(InitVarEntries(c))
    IN /\ last.stores = FieldNamesOf(StoredEntries(c))
       /\ last.hook = (getattr(classes, c, PostInitName) # Absent)
       /\ last.hook /\ module = "dataclasses" =>
            last.hookArgs = [i \in 1..Len(vars_) |-> objs[last.id].args[vars_[i]]]

----------------------------------------------------------------------------
(* How often a default_factory is called.  The factory of the model is     *)
(* list, and every call of it adds one list to the heap.                   *)

CallBodies == Bodies({"a", "b"}, {Bare("int"), Factory(TRUE), Factory(FALSE)})

DeclareCalling ==
  \E body \in CallBodies :
    /\ Len(classes) < MaxClasses
    /\ Fits(body)
    /\ \E bases \in ChainBases : Declare(bases, body, {}, dataclass)

ConstructCalling ==
  /\ Len(objs) < MaxObjs
  /\ \E c \in 1..Len(classes) :
       \E args \in ArgsOver(ParamNames(c), {Int(MaxInt)}) : Construct(c, args)

NextCalls == DeclareCalling \/ ConstructCalling

SpecCalls == Init /\ [][NextCalls]_vars

\* The fields of the instance's class whose default_factory its
\* construction has to call: those left out of __init__ and those whose
\* argument was not given.
Called(o) ==
  {f \in Range(TableOf(o.cls)) : HasFactory(f) /\ (~f.init \/ o.args[f.name] = NotGiven)}

RECURSIVE CallsDue(_)
CallsDue(n) == IF n = 0 THEN 0 ELSE Cardinality(Called(objs[n])) + CallsDue(n - 1)


\* C26: after any number of constructions the factory has been called
\* once for every field with a default_factory that is init-excluded or
\* whose argument was omitted, and never for a field whose value was
\* supplied: the instance holds the supplied value, and no two places hold
\* the result of the same call.
C26_FactoryCalls ==
  Running =>
    /\ Len(heap) = CallsDue(Len(objs))
    /\ \A o \in 1..Len(objs) :
         \A f \in Range(TableOf(objs[o].cls)) :
           HasFactory(f) =>
             IF f \in Called(objs[o])
               THEN /\ objs[o].dict[f.name].tag = "list"
                    /\ \A p \in 1..Len(objs) :
                         \A n \in FieldNames :
                           <<p, n>> # <<o, f.name>> => objs[p].dict[n] # objs[o].dict[f.name]
             ELSE objs[o].dict[f.name] = objs[o].args[f.name]

\* Two instances of a class whose table has an init-excluded field and a
\* parameter with a default_factory: one was given the argument, the other
\* was not, and the factory has been called three times.
C26_Witness ==
  /\ Running
  /\ Len(heap) = 3
  /\ \E p, q \in 1..Len(objs) :
       /\ objs[p].cls = objs[q].cls
       /\ \E f, g \in Range(TableOf(objs[p].cls)) :
            /\ HasFactory(f) /\ ~f.init
            /\ HasFactory(g) /\ g.init
            /\ objs[p].args[g.name] = NotGiven
            /\ objs[q].args[g.name] = Int(MaxInt)

----------------------------------------------------------------------------
(* A class and the class the slots transformation makes of it.  Under      *)
(* src/dataclasses.py the program calls add_slots; under src/dataclass.py  *)
(* the slots step of the decorator makes the new class object from the     *)
(* class it has just finished, and the program of the model keeps both.    *)

LayoutShapes ==
  {Bare("int"), Plain("int", Int(0)),
   ViaField("int", field(Int(0), "MISSING", FALSE, TRUE, "None", TRUE))}

NoSlotsYet == \A c \in 1..Len(classes) : ~HasSlots(classes[c])

DeclareLayout ==
  \E body \in Bodies({"a", "b"}, LayoutShapes) :
    /\ NoSlotsYet
    /\ Len(classes) < MaxClasses
    /\ Fits(body)
    /\ \E bases \in ChainBases : Declare(bases, body, {}, dataclass)

\* The class object the slots step of src/dataclass.py makes of the
\* finished class c, as the class object number id.
SlotsStep(cs, c, id) ==
  [dc_slots([cls |-> cs[c], err |-> NoErr, errName |-> "None"], FALSE).cls
     EXCEPT !.mro = <<id>> \o Tail(cs[c].mro)]

TransformLayout ==
  /\ Running
  /\ NoSlotsYet
  /\ \E c \in 1..Len(classes) :
       IF module = "dataclasses" THEN CallAddSlots(c)
       ELSE /\ classes' = Append(classes, SlotsStep(classes, c, Len(classes) + 1))
            /\ last' = [op |-> "slots", err |-> NoErr, errName |-> "None",
                        id |-> Len(classes) + 1, left |-> <<>>, src |-> c]
            /\ UNCHANGED <<module, fobjs, objs, heap>>

ConstructLayout ==
  /\ Len(objs) < MaxObjs
  /\ \E c \in 1..Len(classes) :
       \E args \in ArgsOver(ParamNames(c), {Int(MaxInt)}) : Construct(c, args)

NextLayout == DeclareLayout \/ TransformLayout \/ ConstructLayout

SpecLayout == Init /\ [][NextLayout]_vars

\* t is the class the transformation made of c.
TransformOf(c, t) ==
  /\ ~HasSlots(classes[c])
  /\ HasSlots(classes[t])
  /\ classes[t].name = c

\* What a program sees of the instance o: the value of each field (the
\* read of a field without a value raises AttributeError), the text of
\* repr(), and the tuple its comparisons compare; repr() and a comparison
\* raise when a read of theirs does.
Seen(o, names) ==
  IF \E i \in 1..Len(names) : ReadAttr(classes, objs[o], names[i]) = Absent
    THEN [err |-> "AttributeError", items |-> <<>>]
  ELSE [err |-> NoErr,
        items |-> [i \in 1..Len(names) |-> ReadAttr(classes, objs[o], names[i])]]

Observed(o) ==
  [values |-> [i \in 1..Len(classes[objs[o].cls].fields) |->
                 ReadAttr(classes, objs[o], classes[objs[o].cls].fields[i].key)],
   repr |-> Seen(o, classes[objs[o].cls].repr),
   compare |-> Seen(o, classes[objs[o].cls].eq)]

\* C27: an instance of the transformed class, made by the call that made
\* an instance of the original class, has the same field values, the
\* same representation and the same comparison tuple as that instance,
\* fields that take their value from a class-level default included.
C27_SameBehaviour ==
  \A p, q \in 1..Len(objs) :
    (TransformOf(objs[p].cls, objs[q].cls) /\ objs[p].args = objs[q].args) =>
      Observed(p) = Observed(q)

----------------------------------------------------------------------------
(* Comparisons between two instances of one class.  Classes over a and b,  *)
(* with and without compare, and classes without fields; with eq alone     *)
(* and with order under src/dataclasses.py, with cmp under                 *)
(* src/dataclass.py, one policy for the classes of a program.  Instances   *)
(* are made of the class declared last, after the declarations, and the    *)
(* program ends with its first comparison, of its first instance with an   *)
(* instance.                                                               *)

OrderingShapes ==
  {Bare("int"), ViaField("int", field(_MISSING, "MISSING", TRUE, TRUE, "None", FALSE))}

OrderingPolicies == {dataclass, [dataclass EXCEPT !.order = TRUE]}

DeclareOrdering ==
  \E body \in Bodies({"a", "b"}, OrderingShapes) :
    /\ NotCompared
    /\ objs = <<>>
    /\ Len(classes) < MaxClasses
    /\ Fits(body)
    /\ \E bases \in ChainBases :
         \E pol \in OrderingPolicies :
           /\ classes # <<>> => pol = classes[1].pol
           /\ Declare(bases, body, {}, pol)

ConstructOrdering ==
  /\ NotCompared
  /\ Len(objs) < MaxObjs
  /\ \E c \in {Len(classes)} \ {0} :
       \E args \in ArgsOver(ParamNames(c), {Int(0), Int(MaxInt)}) :
         /\ \A n \in ParamNames(c) : args[n] # NotGiven
         /\ Construct(c, args)

CompareOrdering ==
  /\ NotCompared
  /\ \E q \in 1..Len(objs) :
       /\ objs[1].cls = objs[q].cls
       /\ \E op \in CmpOps : Compare(1, op, Instance(q))

NextOrdering == DeclareOrdering \/ ConstructOrdering \/ CompareOrdering

SpecOrdering == Init /\ [][NextOrdering]_vars

\* The names of the ordinary fields of the table of c that have compare
\* on, in the order of the table.
ComparedNames(c) ==
  FieldNamesOf(SelectSeq(TableOf(c),
                         LAMBDA f : f.compare /\ f._field_type \notin {_FIELD_CLASSVAR,
                                                                       _FIELD_INITVAR}))

\* The decorator was asked for the method op of the class c: eq for ==
\* and !=, order for the others; cmp of src/dataclass.py asks for all six.
Synthesized(c, op) ==
  IF op \in {"__eq__", "__ne__"} \/ module = "dataclass" THEN classes[c].pol.eq
  ELSE classes[c].pol.order

\* The statement compared two instances of one class.
SameClassCompared ==
  /\ last.op = "compare"
  /\ last.other.kind = "obj"
  /\ objs[last.other.o].cls = objs[last.id].cls

\* The result is that of the operator on the tuples of the compare-on
\* ordinary fields in table order, lexicographic for the orderings; for a
\* class without fields ==, <= and >= hold and the others do not.
AsTuples ==
  /\ last.value =
       Bool(TupleCmp(last.errName,
                     TupleOf(classes, heap, objs[last.id],
                             ComparedNames(objs[last.id].cls)),
                     TupleOf(classes, heap, objs[last.other.o],
                             ComparedNames(objs[last.id].cls))))
  /\ TableOf(objs[last.id].cls) = <<>> =>
       last.value = Bool(last.errName \in {"__eq__", "__le__", "__ge__"})

\* C28 as stated: every comparison of two instances of one class, by any
\* of the six operators, has the result of the operator on the tuples.
C28_AsStated == SameClassCompared => AsTuples

\* C28 for the methods the decorator installed: a comparison of two
\* instances of one class by an operator the class was declared with (eq for == and !=, order for the
\* orderings, cmp for all six) has the result of the operator on the
\* tuples of their compare-on ordinary fields in table order.
C28_TupleComparison ==
  (SameClassCompared /\ Synthesized(objs[last.id].cls, last.errName)) => AsTuples

\* Two instances of a class with two fields, the first with compare off,
\* were compared by <: they differ in the first field only, and the result
\* is False.
C28_Witness ==
  /\ last.op = "compare" /\ last.errName = "__lt__"
  /\ last.other.kind = "obj"
  /\ objs[last.other.o].cls = objs[last.id].cls
  /\ Len(TableOf(objs[last.id].cls)) = 2
  /\ ~TableOf(objs[last.id].cls)[1].compare
  /\ TableOf(objs[last.id].cls)[2].compare
  /\ objs[last.id].dict["a"] = Int(0) /\ objs[last.other.o].dict["a"] = Int(1)
  /\ objs[last.id].dict["b"] = objs[last.other.o].dict["b"]
  /\ last.value = "False"

----------------------------------------------------------------------------
(* The class attributes named after fields, once the decorator is done.    *)

AttrShapes ==
  {Bare("int"), Plain("int", Int(MaxInt)),
   ViaField("int", field(Int(0), "MISSING", TRUE, TRUE, "None", TRUE)),
   ViaField("int", field(_MISSING, "MISSING", TRUE, FALSE, "None", TRUE)),
   Factory(TRUE)}

DeclareAttrs ==
  \E body \in Bodies({"a", "b"}, AttrShapes) :
    /\ Len(classes) < MaxClasses
    /\ Fits(body)
    /\ \E bases \in ChainBases :
         \E init \in BOOLEAN : Declare(bases, body, {}, [dataclass EXCEPT !.init = init])

NextAttrs == DeclareAttrs

SpecAttrs == Init /\ [][NextAttrs]_vars

\* The Field object the table of c has for a name its body declares.
OwnField(c, name) == fobjs[EntryOf(c, name).id]

\* C29: for every field a class declares, the attribute of the name on
\* the class is the field's default when the field has one, the class has
\* no attribute of the name when the field has none (a default_factory
\* is not a default), and the attribute is never a Field object.
C29_ClassAttributes ==
  \A c \in 1..Len(classes) :
    \A i \in 1..Len(classes[c].ann) :
      LET name == classes[c].ann[i].name
      IN /\ getattr(classes, c, name).tag # "Field"
         /\ IF HasDefault(OwnField(c, name))
              THEN getattr(classes, c, name) = OwnField(c, name).default
            ELSE getattr(classes, c, name) = Absent

----------------------------------------------------------------------------
(* Programs that declare classes, alone or derived, whose bodies may give  *)
(* a Field object made earlier, or taken from an earlier class's table, as *)
(* the default; that make instances; and that end with a call of fields,   *)
(* asdict, astuple or replace.                                             *)

NotHelped == last.op \notin {"asdict", "astuple", "fields", "replace"}

DeclareTables ==
  \E body \in Bodies({"a", "b"},
                     {Bare("int"), Plain("int", Int(0))}
                       \cup {Reused("str", k) : k \in 1..Len(fobjs)}) :
    /\ NotHelped
    /\ Len(classes) < MaxClasses
    /\ Fits(body)
    /\ \E bases \in ChainBases : Declare(bases, body, {}, dataclass)

MakeFieldTables == NotHelped /\ MakeField

ConstructTables ==
  /\ NotHelped
  /\ Len(objs) < MaxObjs
  /\ \E c \in 1..Len(classes) :
       Construct(c, [n \in FieldNames |-> IF n \in ParamNames(c) THEN Int(MaxInt) ELSE NotGiven])

HelpTables ==
  /\ NotHelped
  /\ \/ \E c \in 1..Len(classes) : CallFields(ClassRef(c))
     \/ \E o \in 1..Len(objs) :
          \/ CallFields(Instance(o))
          \/ CallAsdict(Instance(o))
          \/ CallAstuple(Instance(o))
          \/ \E v \in {Int(0), NotGiven} :
               CallReplace(o, [n \in FieldNames |->
                                 IF n \in ParamNames(objs[o].cls) THEN v ELSE NotGiven])

NextTables == MakeFieldTables \/ DeclareTables \/ ConstructTables \/ HelpTables

SpecTables == Init /\ [][NextTables]_vars

\* The table of the class c: its keys, in order, each with the contents of
\* the Field object it holds.
TableContents(cs, fo, c) ==
  [i \in 1..Len(cs[c].fields) |-> [key |-> cs[c].fields[i].key, f |-> fo[cs[c].fields[i].id]]]

\* C30: no statement of a program changes the table of a class that has
\* one: after the statement the table has the same keys in the same order
\* and every Field object in it has the same name, type, default, flags
\* and kind.
C30_TablesNeverChange ==
  [][\A c \in 1..Len(classes) :
       /\ c <= Len(classes')
       /\ TableContents(classes', fobjs', c) = TableContents(classes, fobjs, c)]_vars

====
